---- MODULE Spec2Model ----
(***************************************************************************)
(* Chapter / page lifecycle of manga-reader3: ChapterService               *)
(* (internal/service/chapter.go) on top of the PostgreSQL ChapterRepo and  *)
(* the image directory tree.                                               *)
(*                                                                         *)
(* Chapter numbers are float64 in the service and DECIMAL(5,2) in the      *)
(* database.  The model keeps every chapter number as an integer count of  *)
(* thousandths (1.125 is 1125); a two-decimal text such as "1.12" is the   *)
(* integer count of hundredths (112).                                      *)
(***************************************************************************)
EXTENDS Integers, Sequences, FiniteSets, TLC

\* ------------------------------------------------------------------ bounds
MaxChapterId == 1
MaxPageId == 2
MaxPageNumber == 2
MaxPageCount == 1
MaxFaults == 1

\* ------------------------------------------------------------------ inputs
\* ids of manga rows present in the manga table
MangaRows == {1}
\* manga_id values a request may carry (0 is Go's zero value, 2 has no row)
MangaIdInputs == {0, 1, 2}
\* chapter numbers a request may carry, in thousandths.  Every value whose
\* third decimal is 5 is exactly representable in binary (x.125), so that
\* fmt's rounding of the float64 is the rounding of the decimal itself.
NumberInputs == {0, 1000, 1001, 2000}
\* the (number, title, page_count) a chapter request may carry: every number
\* with a title and no page count, one request without title, one with a
\* page count
ChapterInputs ==
    {[number |-> n, title |-> "t", page_count |-> 0] : n \in NumberInputs}
        \cup {[number |-> 1000, title |-> "", page_count |-> 0],
              [number |-> 1000, title |-> "t", page_count |-> MaxPageCount]}
\* the requests of Create: every chapter input for the manga that exists,
\* one request without manga id, one for a manga without row
CreateInputs ==
    {[manga_id |-> 1, number |-> c.number, title |-> c.title,
      page_count |-> c.page_count] : c \in ChapterInputs}
        \cup {[manga_id |-> m, number |-> 1000, title |-> "t", page_count |-> 0] :
                 m \in MangaIdInputs}
\* uploaded image bytes
DataInputs == {"a", "b"}
\* content of a file whose write was cut short
Partial == "partial"

\* ------------------------------------------------------------- conversions
Abs(n) == IF n < 0 THEN 0 - n ELSE n

Sgn(n) == IF n < 0 THEN 0 - 1 ELSE 1

\* fmt.Sprintf("%.2f", x): nearest hundredth, an exact tie goes to the even
\* digit (strconv rounds the exact decimal expansion half-to-even).
GoFmt2(n) ==
    LET a == Abs(n)
        q == a \div 10
        r == a % 10
        up == \/ r > 5
              \/ r = 5 /\ q % 2 = 1
    IN Sgn(n) * (IF up THEN q + 1 ELSE q)

\* value stored in a DECIMAL(5,2) column: numeric rounding to scale 2, a tie
\* goes away from zero.  The result is again in thousandths, as the float64
\* scanned back from the column.
PgRound2(n) ==
    LET a == Abs(n)
        q == a \div 10
        r == a % 10
    IN Sgn(n) * (IF r >= 5 THEN q + 1 ELSE q) * 10

\* fmt.Sprintf("%03d", n) for 0 <= n <= 999: the three digits
Pad3(n) == <<n \div 100, (n \div 10) % 10, n % 10>>

\* fmt.Sprintf("manga_%d/chapter_%.2f", mangaID, chapterNumber)
ChapterDir(mangaID, chapterNumber) ==
    <<"manga_", mangaID, "/chapter_", GoFmt2(chapterNumber)>>

\* fmt.Sprintf("manga_%d/chapter_%.2f/page_%03d.jpg", ...)
PagePath(mangaID, chapterNumber, pageNumber) ==
    ChapterDir(mangaID, chapterNumber) \o <<"/page_", Pad3(pageNumber), ".jpg">>

\* filepath.Dir of a page path
DirOf(path) == SubSeq(path, 1, 4)

\* ------------------------------------------------------------- file system
\* os.MkdirAll(dir)
MkdirAll(ds, dir) == ds \cup {dir}

\* the paths of the files below a directory
FilesUnder(fs, dir) == {p \in DOMAIN fs : DirOf(p) = dir}

\* os.WriteFile(path, data): O_CREATE|O_TRUNC, then the bytes
WriteFile(fs, path, data) ==
    [p \in (DOMAIN fs) \cup {path} |-> IF p = path THEN data ELSE fs[p]]

\* a removal that misses the file (the path is not the one written)
RemoveFile_WrongPath(fs, path) == fs

\* os.Remove(path) of a file
RemoveFile(fs, path) == [p \in (DOMAIN fs) \ {path} |-> fs[p]]

\* os.Rename(oldDir, newDir) succeeds when the source exists and the target
\* is the source itself, is absent, or is an empty directory
CanRename(ds, fs, oldDir, newDir) ==
    /\ oldDir \in ds
    /\ \/ oldDir = newDir
       \/ newDir \notin ds
       \/ FilesUnder(fs, newDir) = {}

RenameDirs(ds, oldDir, newDir) == (ds \ {oldDir}) \cup {newDir}

RenameFiles(fs, oldDir, newDir) ==
    LET moved == {newDir \o SubSeq(p, 5, Len(p)) : p \in FilesUnder(fs, oldDir)}
        kept == (DOMAIN fs) \ FilesUnder(fs, oldDir)
    IN [p \in kept \cup moved |->
          IF p \in moved THEN fs[oldDir \o SubSeq(p, 5, Len(p))] ELSE fs[p]]

\* os.RemoveAll(dir)
RemoveAllDirs(ds, dir) == ds \ {dir}

RemoveAllFiles(fs, dir) == [p \in (DOMAIN fs) \ FilesUnder(fs, dir) |-> fs[p]]

\* --------------------------------------------------------------- repository
\* A chapter row is [id, manga_id, number, title, page_count]; a page row is
\* [id, chapter_id, number, image_url].  A repository call returns a record
\* whose err field is "" on success.  The SERIAL id of a row is the next
\* value of its sequence; values drawn by failed inserts are not modelled,
\* they only leave holes in the ids.
NoChapter == [id |-> 0, manga_id |-> 0, number |-> 0, title |-> "", page_count |-> 0]

NoPage == [id |-> 0, chapter_id |-> 0, number |-> 0, image_url |-> <<>>]

\* SELECT COUNT(*) FROM pages WHERE chapter_id = $1
CountPages(pgs, chapterID) == Cardinality({p \in pgs : p.chapter_id = chapterID})

\* UPDATE chapters SET page_count = (SELECT COUNT(*) ...) WHERE id = $1
RecountPages(chs, pgs, chapterID) ==
    {IF c.id = chapterID
       THEN [c EXCEPT !.page_count = CountPages(pgs, chapterID)]
       ELSE c : c \in chs}

\* ChapterRepo.GetByID
RepoGetByID(chs, id) ==
    IF \E c \in chs : c.id = id
      THEN [err |-> "", chapter |-> CHOOSE c \in chs : c.id = id]
      ELSE [err |-> "not_found", chapter |-> NoChapter]

\* ORDER BY number
RECURSIVE OrderByNumber(_)
OrderByNumber(rows) ==
    IF rows = {} THEN <<>>
    ELSE LET first == CHOOSE p \in rows : \A q \in rows : p.number <= q.number
         IN <<first>> \o OrderByNumber(rows \ {first})

\* ChapterRepo.GetPages: the pages WHERE chapter_id = $1, ORDER BY number
RepoGetPages(pgs, chapterID) ==
    OrderByNumber({p \in pgs : p.chapter_id = chapterID})

\* ChapterRepo.Create: INSERT INTO chapters ... RETURNING id, under
\* UNIQUE (manga_id, number) and the foreign key to manga
RepoCreate(chs, mangas, nextId, chapter) ==
    LET stored == PgRound2(chapter.number)
    IN IF chapter.manga_id \notin mangas
         THEN [err |-> "foreign_key", chapters |-> chs, id |-> 0]
       ELSE IF \E c \in chs : c.manga_id = chapter.manga_id /\ c.number = stored
         THEN [err |-> "conflict", chapters |-> chs, id |-> 0]
       ELSE [err |-> "",
             chapters |-> chs \cup {[id |-> nextId,
                                     manga_id |-> chapter.manga_id,
                                     number |-> stored,
                                     title |-> chapter.title,
                                     page_count |-> chapter.page_count]},
             id |-> nextId]

\* ChapterRepo.Update: UPDATE chapters SET number, title, page_count WHERE id
RepoUpdate(chs, chapter) ==
    LET stored == PgRound2(chapter.number)
        row == RepoGetByID(chs, chapter.id).chapter
    IN IF ~ \E c \in chs : c.id = chapter.id
         THEN [err |-> "not_found", chapters |-> chs]
       ELSE IF \E c \in chs : /\ c.id # chapter.id
                              /\ c.manga_id = row.manga_id
                              /\ c.number = stored
         THEN [err |-> "conflict", chapters |-> chs]
       ELSE [err |-> "",
             chapters |-> (chs \ {row}) \cup
                 {[row EXCEPT !.number = stored,
                              !.title = chapter.title,
                              !.page_count = chapter.page_count]}]

\* ChapterRepo.Delete: DELETE FROM chapters WHERE id; pages go by
\* ON DELETE CASCADE
RepoDelete(chs, pgs, id) ==
    IF ~ \E c \in chs : c.id = id
      THEN [err |-> "not_found", chapters |-> chs, pages |-> pgs]
      ELSE [err |-> "",
            chapters |-> {c \in chs : c.id # id},
            pages |-> {p \in pgs : p.chapter_id # id}]

\* the steps of the two page transactions, in the order of the code
AddPageSteps == <<"begin", "insert", "recount", "commit">>

DeletePageSteps == <<"begin", "lookup", "delete", "renumber", "recount", "commit">>

\* INSERT INTO pages (chapter_id, number, image_url) ... RETURNING id
InsertPage(pgs, nextId, page) ==
    pgs \cup {[id |-> nextId, chapter_id |-> page.chapter_id,
               number |-> page.number, image_url |-> page.image_url]}

\* an AddPage whose statements run outside a transaction: what was executed
\* before the failure stays
RepoAddPage_NoTx(chs, pgs, nextId, page, failAt) ==
    LET inserted == InsertPage(pgs, nextId, page)
        recounted == RecountPages(chs, inserted, page.chapter_id)
    IN IF failAt \in {"begin", "insert"}
         THEN [err |-> "db", step |-> failAt, chapters |-> chs, pages |-> pgs, id |-> 0]
       ELSE IF ~ \E c \in chs : c.id = page.chapter_id
         THEN [err |-> "foreign_key", step |-> "insert", chapters |-> chs,
               pages |-> pgs, id |-> 0]
       ELSE IF \E p \in pgs : p.chapter_id = page.chapter_id /\ p.number = page.number
         THEN [err |-> "conflict", step |-> "insert", chapters |-> chs,
               pages |-> pgs, id |-> 0]
       ELSE IF failAt = "recount"
         THEN [err |-> "db", step |-> failAt, chapters |-> chs, pages |-> inserted,
               id |-> 0]
       ELSE IF failAt = "commit"
         THEN [err |-> "db", step |-> failAt, chapters |-> recounted,
               pages |-> inserted, id |-> 0]
       ELSE [err |-> "", step |-> "", chapters |-> recounted, pages |-> inserted,
             id |-> nextId]

\* ChapterRepo.AddPage: one transaction (BeginTx, defer Rollback), INSERT INTO
\* pages under UNIQUE (chapter_id, number) and the foreign key to chapters,
\* then the page_count recomputation, then Commit.  failAt is the step that
\* fails for an outside reason ("" when none); every error return leaves the
\* transaction to the deferred Rollback.
RepoAddPage(chs, pgs, nextId, page, failAt) ==
    LET inserted == InsertPage(pgs, nextId, page)
        recounted == RecountPages(chs, inserted, page.chapter_id)
        RolledBack(e, at) ==
            [err |-> e, step |-> at, chapters |-> chs, pages |-> pgs, id |-> 0]
    IN IF failAt \in {"begin", "insert"} THEN RolledBack("db", failAt)
       ELSE IF ~ \E c \in chs : c.id = page.chapter_id
         THEN RolledBack("foreign_key", "insert")
       ELSE IF \E p \in pgs : p.chapter_id = page.chapter_id /\ p.number = page.number
         THEN RolledBack("conflict", "insert")
       ELSE IF failAt \in {"recount", "commit"} THEN RolledBack("db", failAt)
       ELSE [err |-> "", step |-> "", chapters |-> recounted, pages |-> inserted,
             id |-> nextId]

\* ROW_NUMBER() OVER (ORDER BY number) of a page among the pages of its chapter
RowNumber(pgs, p) ==
    Cardinality({q \in pgs : q.chapter_id = p.chapter_id /\ q.number <= p.number})

\* The renumbering UPDATE rewrites the rows of the chapter one at a time, in
\* the order the executor meets them (order, a sequence of page ids).  The
\* UNIQUE (chapter_id, number) constraint is not deferrable: it is checked
\* as each row is rewritten.  ranked is the snapshot the new numbers come
\* from; a row that is not in the snapshot is not rewritten.  The result is
\* [err, pages].
RECURSIVE RewriteNumbers(_, _, _, _)
RewriteNumbers(pgs, ranked, chapterID, order) ==
    IF order = <<>> THEN [err |-> "", pages |-> pgs]
    ELSE LET pid == Head(order)
             mine == {p \in pgs : /\ p.id = pid
                                   /\ p.chapter_id = chapterID
                                   /\ \E r \in ranked : r.id = pid}
         IN IF mine = {} THEN RewriteNumbers(pgs, ranked, chapterID, Tail(order))
            ELSE LET old == CHOOSE p \in mine : TRUE
                     new == [old EXCEPT !.number =
                               RowNumber(ranked, CHOOSE r \in ranked : r.id = pid)]
                 IN IF \E q \in pgs : /\ q.id # pid
                                      /\ q.chapter_id = chapterID
                                      /\ q.number = new.number
                      THEN [err |-> "conflict", pages |-> pgs]
                      ELSE RewriteNumbers((pgs \ {old}) \cup {new}, ranked,
                                          chapterID, Tail(order))

\* a DeletePage whose statements run outside a transaction: what was executed
\* before the failure stays
RepoDeletePage_NoTx(chs, pgs, id, order, failAt) ==
    IF failAt \in {"begin", "lookup"}
      THEN [err |-> "db", step |-> failAt, chapters |-> chs, pages |-> pgs]
    ELSE IF ~ \E p \in pgs : p.id = id
      THEN [err |-> "not_found", step |-> "lookup", chapters |-> chs, pages |-> pgs]
    ELSE LET chapterID == (CHOOSE p \in pgs : p.id = id).chapter_id
             deleted == {p \in pgs : p.id # id}
             renumbered == RewriteNumbers(deleted, deleted, chapterID, order)
         IN IF failAt = "delete"
              THEN [err |-> "db", step |-> failAt, chapters |-> chs, pages |-> pgs]
            ELSE IF failAt = "renumber"
              THEN [err |-> "db", step |-> failAt, chapters |-> chs, pages |-> deleted]
            ELSE IF renumbered.err # ""
              THEN [err |-> renumbered.err, step |-> "renumber", chapters |-> chs,
                    pages |-> deleted]
            ELSE IF failAt = "recount"
              THEN [err |-> "db", step |-> failAt, chapters |-> chs,
                    pages |-> renumbered.pages]
            ELSE IF failAt = "commit"
              THEN [err |-> "db", step |-> failAt,
                    chapters |-> RecountPages(chs, renumbered.pages, chapterID),
                    pages |-> renumbered.pages]
            ELSE [err |-> "", step |-> "",
                  chapters |-> RecountPages(chs, renumbered.pages, chapterID),
                  pages |-> renumbered.pages]

\* ChapterRepo.DeletePage: one transaction (BeginTx, defer Rollback), owner
\* lookup, DELETE, the renumbering UPDATE, the page_count recomputation,
\* Commit.  failAt is the step that fails for an outside reason ("" when
\* none); every error return leaves the transaction to the deferred Rollback.
RepoDeletePage(chs, pgs, id, order, failAt) ==
    LET RolledBack(e, at) == [err |-> e, step |-> at, chapters |-> chs, pages |-> pgs]
    IN IF failAt \in {"begin", "lookup"} THEN RolledBack("db", failAt)
       ELSE IF ~ \E p \in pgs : p.id = id THEN RolledBack("not_found", "lookup")
       ELSE LET chapterID == (CHOOSE p \in pgs : p.id = id).chapter_id
                deleted == {p \in pgs : p.id # id}
                renumbered == RewriteNumbers(deleted, deleted, chapterID, order)
            IN IF failAt \in {"delete", "renumber"} THEN RolledBack("db", failAt)
               ELSE IF renumbered.err # ""
                 THEN RolledBack(renumbered.err, "renumber")
               ELSE IF failAt \in {"recount", "commit"} THEN RolledBack("db", failAt)
               ELSE [err |-> "", step |-> "",
                     chapters |-> RecountPages(chs, renumbered.pages, chapterID),
                     pages |-> renumbered.pages]

\* MangaRepo.GetByID
MangaGetByID(mangas, id) == IF id \in mangas THEN "" ELSE "not_found"

\* MangaRepo.Delete: DELETE FROM manga WHERE id; chapters and their pages go
\* by ON DELETE CASCADE
MangaDelete(mangas, chs, pgs, id) ==
    IF id \notin mangas
      THEN [err |-> "not_found", manga |-> mangas, chapters |-> chs, pages |-> pgs]
      ELSE LET gone == {c.id : c \in {x \in chs : x.manga_id = id}}
           IN [err |-> "",
               manga |-> mangas \ {id},
               chapters |-> {c \in chs : c.manga_id # id},
               pages |-> {q \in pgs : q.chapter_id \notin gone}]

\* ------------------------------------------------------------------- state
VARIABLES
    manga,          \* ids of the rows of table manga
    chapters,       \* rows of table chapters
    pages,          \* rows of table pages
    nextChapterId,  \* next value of chapters_id_seq
    nextPageId,     \* next value of pages_id_seq
    dirs,           \* chapter directories below imagesPath
    files,          \* page files below imagesPath: path -> bytes
    faults,         \* number of I/O and database failures injected so far
    last,           \* the service call whose response is being delivered:
                    \* what was asked, what came back ("none" between calls)
    autoAdds,       \* per chapter id: successful AddPage calls without a
                    \* number since the chapter was created, -1 once anything
                    \* else has written the chapter or its pages
    txs,            \* per database connection: the open page transaction
                    \* (its next statement, its uncommitted writes); chapters
                    \* and pages are the committed rows
    limits,         \* the bounds of the exploration: the highest chapter id,
                    \* the highest page id, the number of injected failures
    req,            \* the HTTP request being routed: where it is in its
                    \* handler chain, its gin context, the response written
    adds            \* per concurrent AddPage call of the service: its next
                    \* step, the number and the path it computed

vars == <<manga, chapters, pages, nextChapterId, nextPageId, dirs, files,
          faults, last, autoAdds, txs, limits, req, adds>>

\* the stores as one value, as the service sees them
Stores == [manga |-> manga, chapters |-> chapters, pages |-> pages,
           nextChapterId |-> nextChapterId, nextPageId |-> nextPageId,
           dirs |-> dirs, files |-> files]

\* What a service call returns, with the stores it leaves behind:
\*   out    "ok" or the kind of the error returned
\*   step   the step that failed ("" when none)
\*   calls  the repository / file system calls made, in order
\*   ret    the id returned
\*   number the page number used (AddPage)
\*   path   the relative image path computed (AddPage)
\*   warn   the step whose failure was only logged
\*   hit    the injected failures that were met
Result(st, out, step, calls, hit) ==
    [st |-> st, out |-> out, step |-> step, calls |-> calls, ret |-> 0,
     number |-> 0, path |-> <<>>, warn |-> "", hit |-> hit]

\* ----------------------------------------------------------------- service
\* ChapterService.createChapterImageDir
createChapterImageDir(ds, mangaID, chapterNumber) ==
    MkdirAll(ds, ChapterDir(mangaID, chapterNumber))

\* a Create that does not check the title
CreateValidate_NoTitleCheck(chapter) ==
    IF chapter.manga_id = 0 THEN "manga_id"
    ELSE IF chapter.number <= 0 THEN "number"
    ELSE ""

\* the field checks of ChapterService.Create: the field rejected, "" if none
CreateValidate(chapter) ==
    IF chapter.manga_id = 0 THEN "manga_id"
    ELSE IF chapter.number <= 0 THEN "number"
    ELSE IF chapter.title = "" THEN "title"
    ELSE ""

\* a Create that inserts the row before it creates the directory
SvcCreate_InsertFirst(st, chapter, f) ==
    IF CreateValidate(chapter) # ""
      THEN Result(st, "validation", CreateValidate(chapter), <<>>, {})
    ELSE IF "mangaRepo.GetByID" \in f
      THEN Result(st, "db", "mangaRepo.GetByID", <<"mangaRepo.GetByID">>,
                  {"mangaRepo.GetByID"})
    ELSE IF MangaGetByID(st.manga, chapter.manga_id) # ""
      THEN Result(st, "not_found", "mangaRepo.GetByID", <<"mangaRepo.GetByID">>, {})
    ELSE LET r == RepoCreate(st.chapters, st.manga, st.nextChapterId, chapter)
             st1 == [st EXCEPT !.chapters = r.chapters, !.nextChapterId = @ + 1]
             all == <<"mangaRepo.GetByID", "repo.Create", "createChapterImageDir">>
         IN IF "repo.Create" \in f
              THEN Result(st, "db", "repo.Create",
                          <<"mangaRepo.GetByID", "repo.Create">>, {"repo.Create"})
            ELSE IF r.err # ""
              THEN Result(st, r.err, "repo.Create",
                          <<"mangaRepo.GetByID", "repo.Create">>, {})
            ELSE IF "createChapterImageDir" \in f
              THEN Result(st1, "storage", "createChapterImageDir", all,
                          {"createChapterImageDir"})
            ELSE [Result([st1 EXCEPT !.dirs =
                            MkdirAll(@, ChapterDir(chapter.manga_id, chapter.number))],
                         "ok", "", all, {})
                  EXCEPT !.ret = r.id]

\* a Create that removes the chapter directory when the insert fails
SvcCreate_RemoveDirOnFailure(st, chapter, f) ==
    IF CreateValidate(chapter) # ""
      THEN Result(st, "validation", CreateValidate(chapter), <<>>, {})
    ELSE IF "mangaRepo.GetByID" \in f
      THEN Result(st, "db", "mangaRepo.GetByID", <<"mangaRepo.GetByID">>,
                  {"mangaRepo.GetByID"})
    ELSE IF MangaGetByID(st.manga, chapter.manga_id) # ""
      THEN Result(st, "not_found", "mangaRepo.GetByID", <<"mangaRepo.GetByID">>, {})
    ELSE IF "createChapterImageDir" \in f
      THEN Result(st, "storage", "createChapterImageDir",
                  <<"mangaRepo.GetByID", "createChapterImageDir">>,
                  {"createChapterImageDir"})
    ELSE LET dir == ChapterDir(chapter.manga_id, chapter.number)
             st1 == [st EXCEPT !.dirs = MkdirAll(@, dir)]
             undone == [st EXCEPT !.dirs = RemoveAllDirs(@, dir),
                                  !.files = RemoveAllFiles(@, dir)]
             all == <<"mangaRepo.GetByID", "createChapterImageDir", "repo.Create">>
             r == RepoCreate(st.chapters, st.manga, st.nextChapterId, chapter)
         IN IF "repo.Create" \in f
              THEN Result(undone, "db", "repo.Create", all, {"repo.Create"})
            ELSE IF r.err # ""
              THEN Result(undone, r.err, "repo.Create", all, {})
            ELSE [Result([st1 EXCEPT !.chapters = r.chapters,
                                     !.nextChapterId = @ + 1],
                         "ok", "", all, {})
                  EXCEPT !.ret = r.id]

\* a Create that makes the directory with os.Mkdir, which fails when the
\* directory is already there
SvcCreate_MkdirExclusive(st, chapter, f) ==
    IF CreateValidate(chapter) # ""
      THEN Result(st, "validation", CreateValidate(chapter), <<>>, {})
    ELSE IF "mangaRepo.GetByID" \in f
      THEN Result(st, "db", "mangaRepo.GetByID", <<"mangaRepo.GetByID">>,
                  {"mangaRepo.GetByID"})
    ELSE IF MangaGetByID(st.manga, chapter.manga_id) # ""
      THEN Result(st, "not_found", "mangaRepo.GetByID", <<"mangaRepo.GetByID">>, {})
    ELSE IF "createChapterImageDir" \in f
      THEN Result(st, "storage", "createChapterImageDir",
                  <<"mangaRepo.GetByID", "createChapterImageDir">>,
                  {"createChapterImageDir"})
    ELSE IF ChapterDir(chapter.manga_id, chapter.number) \in st.dirs
      THEN Result(st, "storage", "createChapterImageDir",
                  <<"mangaRepo.GetByID", "createChapterImageDir">>, {})
    ELSE LET st1 == [st EXCEPT !.dirs =
                        createChapterImageDir(@, chapter.manga_id, chapter.number)]
             all == <<"mangaRepo.GetByID", "createChapterImageDir", "repo.Create">>
             r == RepoCreate(st.chapters, st.manga, st.nextChapterId, chapter)
         IN IF "repo.Create" \in f
              THEN Result(st1, "db", "repo.Create", all, {"repo.Create"})
            ELSE IF r.err # ""
              THEN Result(st1, r.err, "repo.Create", all, {})
            ELSE [Result([st1 EXCEPT !.chapters = r.chapters,
                                     !.nextChapterId = @ + 1],
                         "ok", "", all, {})
                  EXCEPT !.ret = r.id]

\* ChapterService.Create; f is the set of calls that fail for an outside
\* reason (I/O error, lost database connection)
SvcCreate(st, chapter, f) ==
    IF CreateValidate(chapter) # ""
      THEN Result(st, "validation", CreateValidate(chapter), <<>>, {})
    ELSE IF "mangaRepo.GetByID" \in f
      THEN Result(st, "db", "mangaRepo.GetByID", <<"mangaRepo.GetByID">>,
                  {"mangaRepo.GetByID"})
    ELSE IF MangaGetByID(st.manga, chapter.manga_id) # ""
      THEN Result(st, "not_found", "mangaRepo.GetByID", <<"mangaRepo.GetByID">>, {})
    ELSE IF "createChapterImageDir" \in f
      THEN Result(st, "storage", "createChapterImageDir",
                  <<"mangaRepo.GetByID", "createChapterImageDir">>,
                  {"createChapterImageDir"})
    ELSE LET st1 == [st EXCEPT !.dirs =
                        createChapterImageDir(@, chapter.manga_id, chapter.number)]
             all == <<"mangaRepo.GetByID", "createChapterImageDir", "repo.Create">>
             r == RepoCreate(st.chapters, st.manga, st.nextChapterId, chapter)
         IN IF "repo.Create" \in f
              THEN Result(st1, "db", "repo.Create", all, {"repo.Create"})
            ELSE IF r.err # ""
              THEN Result(st1, r.err, "repo.Create", all, {})
            ELSE [Result([st1 EXCEPT !.chapters = r.chapters,
                                     !.nextChapterId = @ + 1],
                         "ok", "", all, {})
                  EXCEPT !.ret = r.id]

\* an updateChapterImageDir without the fallback: it renames whether or not
\* the old directory is there, and os.Rename fails when it is not
updateChapterImageDir_NoFallback(ds, fs, mangaID, oldNumber, newNumber, failMkdir, failRename) ==
    LET oldPath == ChapterDir(mangaID, oldNumber)
        newPath == ChapterDir(mangaID, newNumber)
    IN IF failRename \/ ~ CanRename(ds, fs, oldPath, newPath)
         THEN [err |-> "storage", dirs |-> ds, files |-> fs]
       ELSE [err |-> "",
             dirs |-> RenameDirs(ds, oldPath, newPath),
             files |-> RenameFiles(fs, oldPath, newPath)]

\* ChapterService.updateChapterImageDir: [err, dirs, files]; failRename and
\* failMkdir are the outside failures of os.Rename and os.MkdirAll
updateChapterImageDir(ds, fs, mangaID, oldNumber, newNumber, failMkdir, failRename) ==
    LET oldPath == ChapterDir(mangaID, oldNumber)
        newPath == ChapterDir(mangaID, newNumber)
    IN IF oldPath \notin ds
         THEN IF failMkdir
                THEN [err |-> "storage", dirs |-> ds, files |-> fs]
                ELSE [err |-> "", dirs |-> MkdirAll(ds, newPath), files |-> fs]
       ELSE IF failRename \/ ~ CanRename(ds, fs, oldPath, newPath)
         THEN [err |-> "storage", dirs |-> ds, files |-> fs]
       ELSE [err |-> "",
             dirs |-> RenameDirs(ds, oldPath, newPath),
             files |-> RenameFiles(fs, oldPath, newPath)]

\* an Update that writes the row before it moves the directory
SvcUpdate_RowFirst(st, chapter, f) ==
    IF chapter.id = 0 THEN Result(st, "validation", "id", <<>>, {})
    ELSE IF "repo.GetByID" \in f
      THEN Result(st, "db", "repo.GetByID", <<"repo.GetByID">>, {"repo.GetByID"})
    ELSE IF RepoGetByID(st.chapters, chapter.id).err # ""
      THEN Result(st, "not_found", "repo.GetByID", <<"repo.GetByID">>, {})
    ELSE
      LET existingChapter == RepoGetByID(st.chapters, chapter.id).chapter
          changed == existingChapter.number # chapter.number
          oldThere == ChapterDir(existingChapter.manga_id, existingChapter.number)
                          \in st.dirs
          d == updateChapterImageDir(st.dirs, st.files,
                   existingChapter.manga_id, existingChapter.number, chapter.number,
                   "os.MkdirAll" \in f, "os.Rename" \in f)
          dirHit == IF ~ changed THEN {}
                    ELSE IF oldThere THEN f \cap {"os.Rename"}
                    ELSE f \cap {"os.MkdirAll"}
          rowCalls == <<"repo.GetByID", "repo.Update">>
          all == IF changed THEN rowCalls \o <<"updateChapterImageDir">> ELSE rowCalls
          r == RepoUpdate(st.chapters, chapter)
          st1 == [st EXCEPT !.chapters = r.chapters]
      IN IF "repo.Update" \in f
           THEN Result(st, "db", "repo.Update", rowCalls, {"repo.Update"})
         ELSE IF r.err # ""
           THEN Result(st, r.err, "repo.Update", rowCalls, {})
         ELSE IF changed /\ d.err # ""
           THEN Result(st1, d.err, "updateChapterImageDir", all, dirHit)
         ELSE IF changed
           THEN Result([st1 EXCEPT !.dirs = d.dirs, !.files = d.files],
                       "ok", "", all, dirHit)
         ELSE Result(st1, "ok", "", all, dirHit)

\* an Update that moves the directory back when the row update fails
SvcUpdate_MoveBack(st, chapter, f) ==
    IF chapter.id = 0 THEN Result(st, "validation", "id", <<>>, {})
    ELSE IF "repo.GetByID" \in f
      THEN Result(st, "db", "repo.GetByID", <<"repo.GetByID">>, {"repo.GetByID"})
    ELSE IF RepoGetByID(st.chapters, chapter.id).err # ""
      THEN Result(st, "not_found", "repo.GetByID", <<"repo.GetByID">>, {})
    ELSE
      LET existingChapter == RepoGetByID(st.chapters, chapter.id).chapter
          changed == existingChapter.number # chapter.number
          oldThere == ChapterDir(existingChapter.manga_id, existingChapter.number)
                          \in st.dirs
          d == updateChapterImageDir(st.dirs, st.files,
                   existingChapter.manga_id, existingChapter.number, chapter.number,
                   "os.MkdirAll" \in f, "os.Rename" \in f)
          dirHit == IF ~ changed THEN {}
                    ELSE IF oldThere THEN f \cap {"os.Rename"}
                    ELSE f \cap {"os.MkdirAll"}
          dirCalls == IF changed THEN <<"repo.GetByID", "updateChapterImageDir">>
                      ELSE <<"repo.GetByID">>
          st1 == IF changed THEN [st EXCEPT !.dirs = d.dirs, !.files = d.files]
                 ELSE st
          all == dirCalls \o <<"repo.Update">>
          r == RepoUpdate(st.chapters, chapter)
      IN IF changed /\ d.err # ""
           THEN Result(st, d.err, "updateChapterImageDir", dirCalls, dirHit)
         ELSE IF "repo.Update" \in f
           THEN Result(st, "db", "repo.Update", all, dirHit \cup {"repo.Update"})
         ELSE IF r.err # ""
           THEN Result(st, r.err, "repo.Update", all, dirHit)
         ELSE Result([st1 EXCEPT !.chapters = r.chapters], "ok", "", all, dirHit)

\* ChapterService.Update
SvcUpdate(st, chapter, f) ==
    IF chapter.id = 0 THEN Result(st, "validation", "id", <<>>, {})
    ELSE IF "repo.GetByID" \in f
      THEN Result(st, "db", "repo.GetByID", <<"repo.GetByID">>, {"repo.GetByID"})
    ELSE IF RepoGetByID(st.chapters, chapter.id).err # ""
      THEN Result(st, "not_found", "repo.GetByID", <<"repo.GetByID">>, {})
    ELSE
      LET existingChapter == RepoGetByID(st.chapters, chapter.id).chapter
          changed == existingChapter.number # chapter.number
          oldThere == ChapterDir(existingChapter.manga_id, existingChapter.number)
                          \in st.dirs
          d == updateChapterImageDir(st.dirs, st.files,
                   existingChapter.manga_id, existingChapter.number, chapter.number,
                   "os.MkdirAll" \in f, "os.Rename" \in f)
          dirHit == IF ~ changed THEN {}
                    ELSE IF oldThere THEN f \cap {"os.Rename"}
                    ELSE f \cap {"os.MkdirAll"}
          dirCalls == IF changed THEN <<"repo.GetByID", "updateChapterImageDir">>
                      ELSE <<"repo.GetByID">>
          st1 == IF changed THEN [st EXCEPT !.dirs = d.dirs, !.files = d.files]
                 ELSE st
          all == dirCalls \o <<"repo.Update">>
          r == RepoUpdate(st.chapters, chapter)
      IN IF changed /\ d.err # ""
           THEN Result(st, d.err, "updateChapterImageDir", dirCalls, dirHit)
         ELSE IF "repo.Update" \in f
           THEN Result(st1, "db", "repo.Update", all, dirHit \cup {"repo.Update"})
         ELSE IF r.err # ""
           THEN Result(st1, r.err, "repo.Update", all, dirHit)
         ELSE Result([st1 EXCEPT !.chapters = r.chapters], "ok", "", all, dirHit)

\* a Delete that returns the error of the directory removal
SvcDelete_ReturnRemoveError(st, id, f) ==
    IF "repo.GetByID" \in f
      THEN Result(st, "db", "repo.GetByID", <<"repo.GetByID">>, {"repo.GetByID"})
    ELSE IF RepoGetByID(st.chapters, id).err # ""
      THEN Result(st, "not_found", "repo.GetByID", <<"repo.GetByID">>, {})
    ELSE
      LET chapter == RepoGetByID(st.chapters, id).chapter
          r == RepoDelete(st.chapters, st.pages, id)
          dir == ChapterDir(chapter.manga_id, chapter.number)
          st1 == [st EXCEPT !.chapters = r.chapters, !.pages = r.pages]
          all == <<"repo.GetByID", "repo.Delete", "deleteChapterImageDir">>
      IN IF "repo.Delete" \in f
           THEN Result(st, "db", "repo.Delete", <<"repo.GetByID", "repo.Delete">>,
                       {"repo.Delete"})
         ELSE IF r.err # ""
           THEN Result(st, r.err, "repo.Delete", <<"repo.GetByID", "repo.Delete">>, {})
         ELSE IF "os.RemoveAll" \in f
           THEN Result(st1, "storage", "deleteChapterImageDir", all, {"os.RemoveAll"})
         ELSE Result([st1 EXCEPT !.dirs = RemoveAllDirs(@, dir),
                                 !.files = RemoveAllFiles(@, dir)],
                     "ok", "", all, {})

\* ChapterService.Delete
SvcDelete(st, id, f) ==
    IF "repo.GetByID" \in f
      THEN Result(st, "db", "repo.GetByID", <<"repo.GetByID">>, {"repo.GetByID"})
    ELSE IF RepoGetByID(st.chapters, id).err # ""
      THEN Result(st, "not_found", "repo.GetByID", <<"repo.GetByID">>, {})
    ELSE
      LET chapter == RepoGetByID(st.chapters, id).chapter
          r == RepoDelete(st.chapters, st.pages, id)
          dir == ChapterDir(chapter.manga_id, chapter.number)
          st1 == [st EXCEPT !.chapters = r.chapters, !.pages = r.pages]
          all == <<"repo.GetByID", "repo.Delete", "deleteChapterImageDir">>
      IN IF "repo.Delete" \in f
           THEN Result(st, "db", "repo.Delete", <<"repo.GetByID", "repo.Delete">>,
                       {"repo.Delete"})
         ELSE IF r.err # ""
           THEN Result(st, r.err, "repo.Delete", <<"repo.GetByID", "repo.Delete">>, {})
         ELSE IF "os.RemoveAll" \in f
           THEN [Result(st1, "ok", "", all, {"os.RemoveAll"})
                 EXCEPT !.warn = "deleteChapterImageDir"]
         ELSE Result([st1 EXCEPT !.dirs = RemoveAllDirs(@, dir),
                                 !.files = RemoveAllFiles(@, dir)],
                     "ok", "", all, {})

\* a savePageImage that drops the error of os.WriteFile
savePageImage_IgnoreWriteError(ds, fs, mangaID, chapterNumber, pageNumber, imageData, failMkdir, failOpen, failWrite) ==
    LET relPath == PagePath(mangaID, chapterNumber, pageNumber)
        made == MkdirAll(ds, DirOf(relPath))
    IN IF failMkdir
         THEN [err |-> "storage", path |-> <<>>, dirs |-> ds, files |-> fs]
       ELSE IF failOpen
         THEN [err |-> "", path |-> relPath, dirs |-> made, files |-> fs]
       ELSE IF failWrite
         THEN [err |-> "", path |-> relPath, dirs |-> made,
               files |-> WriteFile(fs, relPath, Partial)]
       ELSE [err |-> "", path |-> relPath, dirs |-> made,
             files |-> WriteFile(fs, relPath, imageData)]

\* ChapterService.savePageImage: [err, path, dirs, files].  A failure of
\* os.WriteFile is either a failed open (nothing written) or a failed write
\* after the file was created and truncated.
savePageImage(ds, fs, mangaID, chapterNumber, pageNumber, imageData, failMkdir, failOpen, failWrite) ==
    LET relPath == PagePath(mangaID, chapterNumber, pageNumber)
        made == MkdirAll(ds, DirOf(relPath))
    IN IF failMkdir
         THEN [err |-> "storage", path |-> <<>>, dirs |-> ds, files |-> fs]
       ELSE IF failOpen
         THEN [err |-> "storage", path |-> <<>>, dirs |-> made, files |-> fs]
       ELSE IF failWrite
         THEN [err |-> "storage", path |-> <<>>, dirs |-> made,
               files |-> WriteFile(fs, relPath, Partial)]
       ELSE [err |-> "", path |-> relPath, dirs |-> made,
             files |-> WriteFile(fs, relPath, imageData)]

\* a numbering that starts at 0
NextPageNumber_OffByOne(pgs, chapterID) == Len(RepoGetPages(pgs, chapterID))

\* the page number AddPage uses when the request carries none
NextPageNumber(pgs, chapterID) == Len(RepoGetPages(pgs, chapterID)) + 1

\* ChapterService.AddPage
SvcAddPage(st, page, imageData, f) ==
    IF page.chapter_id = 0 THEN Result(st, "validation", "chapter_id", <<>>, {})
    ELSE IF "repo.GetByID" \in f
      THEN Result(st, "db", "repo.GetByID", <<"repo.GetByID">>, {"repo.GetByID"})
    ELSE IF RepoGetByID(st.chapters, page.chapter_id).err # ""
      THEN Result(st, "not_found", "repo.GetByID", <<"repo.GetByID">>, {})
    ELSE
      LET chapter == RepoGetByID(st.chapters, page.chapter_id).chapter
          unset == page.number <= 0
          lookCalls == IF unset THEN <<"repo.GetByID", "repo.GetPages">>
                       ELSE <<"repo.GetByID">>
          number == IF unset THEN NextPageNumber(st.pages, page.chapter_id)
                    ELSE page.number
          s == savePageImage(st.dirs, st.files, chapter.manga_id, chapter.number,
                             number, imageData, "os.MkdirAll" \in f,
                             "os.WriteFile.open" \in f, "os.WriteFile.write" \in f)
          saveHit == IF "os.MkdirAll" \in f THEN {"os.MkdirAll"}
                     ELSE IF "os.WriteFile.open" \in f THEN {"os.WriteFile.open"}
                     ELSE f \cap {"os.WriteFile.write"}
          saveCalls == lookCalls \o <<"savePageImage">>
          st1 == [st EXCEPT !.dirs = s.dirs, !.files = s.files]
          r == RepoAddPage(st.chapters, st.pages, st.nextPageId,
                           [chapter_id |-> page.chapter_id, number |-> number,
                            image_url |-> s.path], "")
          insertErr == IF "repo.AddPage" \in f THEN "db" ELSE r.err
          st2 == IF "os.Remove" \in f THEN st1
                 ELSE [st1 EXCEPT !.files = RemoveFile(@, s.path)]
      IN IF unset /\ "repo.GetPages" \in f
           THEN Result(st, "db", "repo.GetPages", lookCalls, {"repo.GetPages"})
         ELSE IF s.err # ""
           THEN [Result(st1, s.err, "savePageImage", saveCalls, saveHit)
                 EXCEPT !.number = number]
         ELSE IF insertErr # ""
           THEN [Result(st2, insertErr, "repo.AddPage",
                        saveCalls \o <<"repo.AddPage", "os.Remove">>,
                        saveHit \cup (f \cap {"repo.AddPage", "os.Remove"}))
                 EXCEPT !.number = number, !.path = s.path,
                        !.warn = IF "os.Remove" \in f THEN "os.Remove" ELSE ""]
         ELSE [Result([st1 EXCEPT !.chapters = r.chapters, !.pages = r.pages,
                                  !.nextPageId = @ + 1],
                      "ok", "", saveCalls \o <<"repo.AddPage">>, saveHit)
               EXCEPT !.ret = r.id, !.number = number, !.path = s.path]

\* the loop of ChapterService.DeletePage over the pages it fetched
FindPage(pgSeq, id) ==
    IF \E i \in 1..Len(pgSeq) : pgSeq[i].id = id
      THEN pgSeq[CHOOSE i \in 1..Len(pgSeq) : pgSeq[i].id = id]
      ELSE NoPage

\* ChapterService.deletePageImage: os.Remove of the derived path, an error
\* when the file is absent
deletePageImage(fs, mangaID, chapterNumber, pageNumber, failRemove) ==
    LET relPath == PagePath(mangaID, chapterNumber, pageNumber)
    IN IF failRemove \/ relPath \notin DOMAIN fs
         THEN [err |-> "storage", files |-> fs]
         ELSE [err |-> "", files |-> RemoveFile(fs, relPath)]

\* ChapterService.DeletePage from the chapter lookup on, for the page row
\* targetPage its loop stopped at: repo.GetByID, repo.DeletePage, then the
\* removal of the image, whose error is only logged.  order is the order in
\* which the renumbering UPDATE of the repository meets the rows.
SvcDeletePageFound(st, targetPage, id, order, f) ==
    LET got == RepoGetByID(st.chapters, targetPage.chapter_id)
        chapter == got.chapter
        r == RepoDeletePage(st.chapters, st.pages, id, order, "")
        st1 == [st EXCEPT !.chapters = r.chapters, !.pages = r.pages]
        img == deletePageImage(st.files, chapter.manga_id, chapter.number,
                               targetPage.number, "os.Remove" \in f)
        toGet == <<"repo.GetPages", "repo.GetByID">>
        toDelete == toGet \o <<"repo.DeletePage">>
    IN IF "repo.GetByID" \in f
         THEN Result(st, "db", "repo.GetByID", toGet, {"repo.GetByID"})
       ELSE IF got.err # ""
         THEN Result(st, got.err, "repo.GetByID", toGet, {})
       ELSE IF "repo.DeletePage" \in f
         THEN Result(st, "db", "repo.DeletePage", toDelete, {"repo.DeletePage"})
       ELSE IF r.err # ""
         THEN Result(st, r.err, "repo.DeletePage", toDelete, {})
       ELSE [Result([st1 EXCEPT !.files = img.files], "ok", "",
                    toDelete \o <<"deletePageImage">>, f \cap {"os.Remove"})
             EXCEPT !.number = targetPage.number,
                    !.warn = IF img.err # "" THEN "deletePageImage" ELSE ""]

\* ChapterService.DeletePage: the page is looked for among the rows
\* repo.GetPages returns for chapter id 0
SvcDeletePage(st, id, order, f) ==
    IF "repo.GetPages" \in f
      THEN Result(st, "db", "repo.GetPages", <<"repo.GetPages">>, {"repo.GetPages"})
    ELSE
      LET fetched == RepoGetPages(st.pages, 0)
          targetPage == FindPage(fetched, id)
      IN IF targetPage.id = 0
           THEN Result(st, "not_found", "lookup", <<"repo.GetPages">>, {})
         ELSE SvcDeletePageFound(st, targetPage, id, order, f)

\* MangaService.Delete
SvcDeleteManga(st, id, f) ==
    IF "mangaRepo.GetByID" \in f
      THEN Result(st, "db", "mangaRepo.GetByID", <<"mangaRepo.GetByID">>,
                  {"mangaRepo.GetByID"})
    ELSE IF MangaGetByID(st.manga, id) # ""
      THEN Result(st, "not_found", "mangaRepo.GetByID", <<"mangaRepo.GetByID">>, {})
    ELSE
      LET r == MangaDelete(st.manga, st.chapters, st.pages, id)
          all == <<"mangaRepo.GetByID", "mangaRepo.Delete">>
      IN IF "mangaRepo.Delete" \in f
           THEN Result(st, "db", "mangaRepo.Delete", all, {"mangaRepo.Delete"})
         ELSE IF r.err # ""
           THEN Result(st, r.err, "mangaRepo.Delete", all, {})
         ELSE Result([st EXCEPT !.manga = r.manga, !.chapters = r.chapters,
                                !.pages = r.pages],
                     "ok", "", all, {})

\* ------------------------------------------------------------------ system
\* the database connections that may hold a page transaction at a time
MaxTx == 2

TxIds == 1..MaxTx

\* a connection without open transaction.  op is "add" or "del", arg the page
\* number (add) or page id (del) of the call, pc the next statement, ins /
\* del / upd the rows inserted, the ids deleted and the rows rewritten by the
\* transaction, snap the rows the running statement sees, cnt the
\* page_count it wrote (-1 when none).
IdleTx == [op |-> "none", arg |-> 0, pc |-> "", ins |-> {}, del |-> {}, upd |-> {},
           snap |-> {}, cnt |-> 0 - 1]

\* no HTTP request is being routed.  method and path name the request, auth
\* is the Authorization header split at the blank, ctype the Content-Type,
\* pos the index of the next handler of the chain, ctx the keys set on the
\* gin context, status the status written (0 while none), handler the route
\* handler that was entered ("" while none).
NoRequest == [method |-> "", path |-> "", auth |-> <<>>, ctype |-> "", pos |-> 0,
              ctx |-> {}, status |-> 0, handler |-> ""]

\* the number of AddPage calls of the service that run at the same time
MaxAdds == 2

AddIds == 1..MaxAdds

\* no AddPage call is running on the goroutine.  pc is the next step of a
\* running call, data the bytes uploaded, chapter the row it read, number the
\* page number it computed, path the path it wrote, out and ret what it
\* returns.
IdleAdd == [pc |-> "idle", data |-> "", chapter |-> NoChapter, number |-> 0,
            path |-> <<>>, out |-> "", ret |-> 0]

ChapterIds == 1..limits.chapterIds

PageIds == 1..limits.pageIds

\* the calls of each service method that may fail for an outside reason
CreateFaults == {"mangaRepo.GetByID", "createChapterImageDir", "repo.Create"}

UpdateFaults == {"repo.GetByID", "os.MkdirAll", "os.Rename", "repo.Update"}

DeleteFaults == {"repo.GetByID", "repo.Delete", "os.RemoveAll"}

AddPageFaults == {"repo.GetByID", "repo.GetPages", "os.MkdirAll",
                  "os.WriteFile.open", "os.WriteFile.write", "repo.AddPage",
                  "os.Remove"}

DeletePageFaults == {"repo.GetPages", "repo.GetByID", "repo.DeletePage", "os.Remove"}

DeleteMangaFaults == {"mangaRepo.GetByID", "mangaRepo.Delete"}

\* the sets of failures that may still be injected
FaultSets(points) ==
    {f \in SUBSET points : Cardinality(f) <= limits.faults - faults}

\* permutations of the page ids 1..n: the orders a statement may meet the
\* rows in
Orders(n) ==
    {o \in [1..n -> 1..n] : \A i, j \in 1..n : i # j => o[i] # o[j]}

RowOrders == Orders(limits.pageIds)

NoCall == [op |-> "none", out |-> "", step |-> "", calls |-> <<>>, warn |-> "",
           hit |-> {}, id |-> 0, manga_id |-> 0, number |-> 0, title |-> "",
           ret |-> 0, page_number |-> 0, path |-> <<>>]

\* the record of a call: the request (id, manga_id, number, title) and the
\* result
Call(op, id, mangaID, number, title, r) ==
    [op |-> op, out |-> r.out, step |-> r.step, calls |-> r.calls,
     warn |-> r.warn, hit |-> r.hit, id |-> id, manga_id |-> mangaID, number |-> number,
     title |-> title, ret |-> r.ret, page_number |-> r.number, path |-> r.path]

\* the stores after a call; only the failures that were met are injected.
\* Administrative writes are serialized: a call starts once the response of
\* the previous one is out.
Commit(r, f) ==
    /\ last.op = "none"
    /\ r.hit = f
    /\ r.st.nextChapterId <= limits.chapterIds + 1
    /\ r.st.nextPageId <= limits.pageIds + 1
    /\ manga' = r.st.manga
    /\ chapters' = r.st.chapters
    /\ pages' = r.st.pages
    /\ nextChapterId' = r.st.nextChapterId
    /\ nextPageId' = r.st.nextPageId
    /\ dirs' = r.st.dirs
    /\ files' = r.st.files
    /\ faults' = faults + Cardinality(f)
    /\ txs' = txs
    /\ limits' = limits
    /\ UNCHANGED <<req, adds>>

Init ==
    /\ limits = [chapterIds |-> MaxChapterId, pageIds |-> MaxPageId,
                 faults |-> MaxFaults]
    /\ manga = MangaRows
    /\ chapters = {}
    /\ pages = {}
    /\ nextChapterId = 1
    /\ nextPageId = 1
    /\ dirs = {}
    /\ files = <<>>
    /\ faults = 0
    /\ last = NoCall
    /\ autoAdds = [c \in ChapterIds |-> 0 - 1]
    /\ txs = [t \in TxIds |-> IdleTx]
    /\ req = NoRequest
    /\ adds = [a \in AddIds |-> IdleAdd]

\* POST /chapters
Create ==
    \E c \in CreateInputs, f \in FaultSets(CreateFaults) :
      LET r == SvcCreate(Stores, [id |-> 0, manga_id |-> c.manga_id,
                                  number |-> c.number, title |-> c.title,
                                  page_count |-> c.page_count], f)
      IN /\ Commit(r, f)
         /\ last' = Call("Create", 0, c.manga_id, c.number, c.title, r)
         /\ autoAdds' = IF r.out = "ok" THEN [autoAdds EXCEPT ![r.ret] = 0]
                        ELSE autoAdds

\* PUT /chapters/:id
Update ==
    \E id \in 0..limits.chapterIds, c \in ChapterInputs, f \in FaultSets(UpdateFaults) :
      LET r == SvcUpdate(Stores, [id |-> id, manga_id |-> 0, number |-> c.number,
                                  title |-> c.title, page_count |-> c.page_count], f)
      IN /\ Commit(r, f)
         /\ last' = Call("Update", id, 0, c.number, c.title, r)
         /\ autoAdds' = IF r.out = "ok" THEN [autoAdds EXCEPT ![id] = 0 - 1]
                        ELSE autoAdds

\* DELETE /chapters/:id
Delete ==
    \E id \in 0..limits.chapterIds, f \in FaultSets(DeleteFaults) :
      LET r == SvcDelete(Stores, id, f)
      IN /\ Commit(r, f)
         /\ last' = Call("Delete", id, 0, 0, "", r)
         /\ autoAdds' = IF r.out = "ok" THEN [autoAdds EXCEPT ![id] = 0 - 1]
                        ELSE autoAdds

\* POST /chapters/:id/pages
AddPage ==
    \E c \in 0..limits.chapterIds, n \in (0 - 1)..MaxPageNumber, d \in DataInputs,
       f \in FaultSets(AddPageFaults) :
      LET r == SvcAddPage(Stores, [id |-> 0, chapter_id |-> c, number |-> n,
                                   image_url |-> <<>>], d, f)
      IN /\ Commit(r, f)
         /\ last' = Call("AddPage", c, 0, n, "", r)
         /\ autoAdds' = IF r.out # "ok" THEN autoAdds
                        ELSE IF n <= 0 /\ autoAdds[c] >= 0
                          THEN [autoAdds EXCEPT ![c] = @ + 1]
                        ELSE [autoAdds EXCEPT ![c] = 0 - 1]

\* DELETE /chapters/pages/:page_id
DeletePage ==
    \E id \in 0..limits.pageIds, order \in RowOrders,
       f \in FaultSets(DeletePageFaults) :
      LET r == SvcDeletePage(Stores, id, order, f)
          owner == {p.chapter_id : p \in {q \in pages : q.id = id}}
      IN /\ Commit(r, f)
         /\ last' = Call("DeletePage", id, 0, 0, "", r)
         /\ autoAdds' = IF r.out = "ok"
                          THEN [c \in ChapterIds |->
                                  IF c \in owner THEN 0 - 1 ELSE autoAdds[c]]
                          ELSE autoAdds

\* DELETE /manga/:id
DeleteManga ==
    \E id \in MangaIdInputs, f \in FaultSets(DeleteMangaFaults) :
      LET r == SvcDeleteManga(Stores, id, f)
          gone == {c.id : c \in {x \in chapters : x.manga_id = id}}
      IN /\ Commit(r, f)
         /\ last' = Call("DeleteManga", id, id, 0, "", r)
         /\ autoAdds' = IF r.out = "ok"
                          THEN [c \in ChapterIds |->
                                  IF c \in gone THEN 0 - 1 ELSE autoAdds[c]]
                          ELSE autoAdds

\* the response of the call is delivered
Respond ==
    /\ last.op # "none"
    /\ last' = NoCall
    /\ UNCHANGED <<manga, chapters, pages, nextChapterId, nextPageId, dirs,
                   files, faults, autoAdds, txs, limits, req, adds>>

Next ==
    Create \/ Update \/ Delete \/ AddPage \/ DeletePage \/ DeleteManga \/ Respond

Spec == Init /\ [][Next]_vars

\* ------------------------------------------------------------ two chapters
\* The same service with room for a second chapter and one page.
PairMaxChapterId == 2

PairMaxPageId == 1

PairMaxFaults == 0

PairInit ==
    /\ limits = [chapterIds |-> PairMaxChapterId, pageIds |-> PairMaxPageId,
                 faults |-> PairMaxFaults]
    /\ manga = MangaRows
    /\ chapters = {}
    /\ pages = {}
    /\ nextChapterId = 1
    /\ nextPageId = 1
    /\ dirs = {}
    /\ files = <<>>
    /\ faults = 0
    /\ last = NoCall
    /\ autoAdds = [c \in ChapterIds |-> 0 - 1]
    /\ txs = [t \in TxIds |-> IdleTx]
    /\ req = NoRequest
    /\ adds = [a \in AddIds |-> IdleAdd]

PairSpec == PairInit /\ [][Next]_vars

\* ------------------------------------------- the page repository on its own
\* ChapterRepo.AddPage and ChapterRepo.DeletePage called on one chapter, one
\* call at a time, each statement of the transaction able to fail.
RepoMaxPageId == 3

RepoMaxPageNumber == 3

\* the chapter the repository calls work on, as Create leaves it
RepoChapter == [id |-> 1, manga_id |-> 1, number |-> 1000, title |-> "t",
                page_count |-> 0]

\* the record of a repository call
RepoCall(op, id, number, r) ==
    [NoCall EXCEPT !.op = op, !.id = id, !.number = number,
                   !.out = IF r.err = "" THEN "ok" ELSE r.err,
                   !.step = r.step]

\* the database after Create(manga 1, number 1.00): one chapter, no page
RepoInit ==
    /\ limits = [chapterIds |-> MaxChapterId, pageIds |-> RepoMaxPageId,
                 faults |-> 0]
    /\ manga = MangaRows
    /\ chapters = {RepoChapter}
    /\ pages = {}
    /\ nextChapterId = 2
    /\ nextPageId = 1
    /\ dirs = {ChapterDir(RepoChapter.manga_id, RepoChapter.number)}
    /\ files = <<>>
    /\ faults = 0
    /\ last = NoCall
    /\ autoAdds = [c \in ChapterIds |-> 0 - 1]
    /\ txs = [t \in TxIds |-> IdleTx]
    /\ req = NoRequest
    /\ adds = [a \in AddIds |-> IdleAdd]

\* a call of ChapterRepo.AddPage
CallAddPage ==
    \E c \in 1..2, n \in 1..RepoMaxPageNumber,
       failAt \in {""} \cup {AddPageSteps[i] : i \in 1..Len(AddPageSteps)} :
      LET r == RepoAddPage(chapters, pages, nextPageId,
                           [chapter_id |-> c, number |-> n,
                            image_url |-> PagePath(RepoChapter.manga_id,
                                                   RepoChapter.number, n)],
                           failAt)
      IN /\ nextPageId <= RepoMaxPageId
         /\ chapters' = r.chapters
         /\ pages' = r.pages
         /\ nextPageId' = IF r.err = "" THEN nextPageId + 1 ELSE nextPageId
         /\ last' = [RepoCall("repo.AddPage", c, n, r) EXCEPT !.ret = r.id]
         /\ UNCHANGED <<manga, nextChapterId, dirs, files, faults, autoAdds, txs, limits, req, adds>>

\* a call of ChapterRepo.DeletePage
CallDeletePage ==
    \E id \in 1..RepoMaxPageId, order \in Orders(RepoMaxPageId),
       failAt \in {""} \cup {DeletePageSteps[i] : i \in 1..Len(DeletePageSteps)} :
      LET r == RepoDeletePage(chapters, pages, id, order, failAt)
      IN /\ chapters' = r.chapters
         /\ pages' = r.pages
         /\ last' = RepoCall("repo.DeletePage", id, 0, r)
         /\ UNCHANGED <<manga, nextChapterId, nextPageId, dirs, files, faults,
                        autoAdds, txs, limits, req, adds>>

RepoNext == CallAddPage \/ CallDeletePage

RepoSpec == RepoInit /\ [][RepoNext]_vars

\* ------------------------------------ page transactions on two connections
\* The statements of ChapterRepo.AddPage and ChapterRepo.DeletePage of calls
\* that run at the same time, on the one chapter of RepoInit.  BeginTx(ctx,
\* nil) gives PostgreSQL's default isolation, READ COMMITTED: each statement
\* sees the rows committed when it starts plus the writes of its own
\* transaction; a statement that meets a row, or a unique key, written by an
\* open transaction waits for that transaction to end and then goes on with
\* the snapshot it started with.
ConcMaxPageId == 3

ConcMaxPageNumber == 2

RowIds(rows) == {r.id : r \in rows}

\* the rows a statement of transaction t sees when it starts
Visible(t) ==
    {q \in pages : q.id \notin txs[t].del /\ q.id \notin RowIds(txs[t].upd)}
        \cup txs[t].ins \cup txs[t].upd

\* the page rows locked by transaction u: deleted or rewritten, not committed
LockedRows(u) == txs[u].del \cup RowIds(txs[u].upd)

\* the page numbers whose UNIQUE index entries transaction u has changed
\* without committing: numbers it inserted or wrote, and the numbers of the
\* committed rows it deleted or rewrote
PendingKeys(u) ==
    {q.number : q \in txs[u].ins \cup txs[u].upd}
        \cup {q.number : q \in {x \in pages : x.id \in LockedRows(u)}}

\* the numbers the renumbering UPDATE of t writes into rows that change
NewNumbers(t) ==
    {RowNumber(txs[t].snap, r) :
        r \in {x \in txs[t].snap : RowNumber(txs[t].snap, x) # x.number}}

\* the next statement of t has to wait for transaction u
Blocked(t, u) ==
    /\ t # u
    /\ \/ txs[t].pc = "insert" /\ txs[t].arg \in PendingKeys(u)
       \/ txs[t].pc = "delete" /\ txs[t].arg \in LockedRows(u)
       \/ /\ txs[t].pc = "renumberApply"
          /\ \/ RowIds(txs[t].snap) \cap LockedRows(u) # {}
             \/ NewNumbers(t) \cap PendingKeys(u) # {}
       \/ txs[t].pc = "recountApply" /\ txs[u].cnt >= 0

Free(t) == \A u \in TxIds : ~ Blocked(t, u)

\* the call on connection t returns: its transaction is over
Finish(t, out, step) ==
    /\ txs' = [txs EXCEPT ![t] = IdleTx]
    /\ last' = [NoCall EXCEPT !.op = IF txs[t].op = "add" THEN "repo.AddPage"
                                    ELSE "repo.DeletePage",
                              !.id = t, !.number = txs[t].arg,
                              !.out = out, !.step = step]

Step(t, next) ==
    /\ txs' = [txs EXCEPT ![t] = next]
    /\ last' = last

\* BeginTx of AddPage (page number n) or DeletePage (page id n)
TxBegin ==
    \E t \in TxIds, op \in {"add", "del"}, n \in 1..ConcMaxPageId :
      /\ txs[t].op = "none"
      /\ op = "add"
           => /\ n <= ConcMaxPageNumber
              /\ nextPageId + Cardinality({u \in TxIds : txs[u].pc = "insert"})
                   <= ConcMaxPageId
      /\ Step(t, [IdleTx EXCEPT !.op = op, !.arg = n,
                                !.pc = IF op = "add" THEN "insert" ELSE "lookup"])
      /\ UNCHANGED <<manga, chapters, pages, nextChapterId, nextPageId, dirs,
                     files, faults, autoAdds, limits,
                     req, adds>>

\* INSERT INTO pages ... RETURNING id
TxInsert ==
    \E t \in TxIds :
      /\ txs[t].pc = "insert"
      /\ Free(t)
      /\ IF \E q \in pages : q.number = txs[t].arg
           THEN /\ Finish(t, "conflict", "insert")
                /\ nextPageId' = nextPageId
           ELSE /\ Step(t, [txs[t] EXCEPT
                              !.ins = InsertPage({}, nextPageId,
                                        [chapter_id |-> RepoChapter.id,
                                         number |-> txs[t].arg,
                                         image_url |-> PagePath(RepoChapter.manga_id,
                                                         RepoChapter.number,
                                                         txs[t].arg)]),
                              !.pc = "recount"])
                /\ nextPageId' = nextPageId + 1
      /\ UNCHANGED <<manga, chapters, pages, nextChapterId, dirs, files, faults,
                     autoAdds, limits, req, adds>>

\* SELECT chapter_id FROM pages WHERE id = $1
TxLookup ==
    \E t \in TxIds :
      /\ txs[t].pc = "lookup"
      /\ IF \E q \in pages : q.id = txs[t].arg
           THEN Step(t, [txs[t] EXCEPT !.pc = "delete"])
           ELSE Finish(t, "not_found", "lookup")
      /\ UNCHANGED <<manga, chapters, pages, nextChapterId, nextPageId, dirs,
                     files, faults, autoAdds, limits,
                     req, adds>>

\* DELETE FROM pages WHERE id = $1, then the RowsAffected check
TxDelete ==
    \E t \in TxIds :
      /\ txs[t].pc = "delete"
      /\ Free(t)
      /\ IF \E q \in pages : q.id = txs[t].arg
           THEN Step(t, [txs[t] EXCEPT !.del = {txs[t].arg}, !.pc = "renumber"])
           ELSE Finish(t, "not_found", "delete")
      /\ UNCHANGED <<manga, chapters, pages, nextChapterId, nextPageId, dirs,
                     files, faults, autoAdds, limits,
                     req, adds>>

\* the renumbering UPDATE starts: its snapshot is taken
TxRenumberStart ==
    \E t \in TxIds :
      /\ txs[t].pc = "renumber"
      /\ Step(t, [txs[t] EXCEPT !.snap = Visible(t), !.pc = "renumberApply"])
      /\ UNCHANGED <<manga, chapters, pages, nextChapterId, nextPageId, dirs,
                     files, faults, autoAdds, limits,
                     req, adds>>

\* the renumbering UPDATE rewrites the rows of its snapshot
TxRenumberApply ==
    \E t \in TxIds, order \in Orders(ConcMaxPageId) :
      /\ txs[t].pc = "renumberApply"
      /\ Free(t)
      /\ LET r == RewriteNumbers(Visible(t), txs[t].snap, RepoChapter.id, order)
         IN IF r.err # ""
              THEN Finish(t, r.err, "renumber")
              ELSE Step(t, [txs[t] EXCEPT
                              !.upd = {q \in r.pages : q.id \in RowIds(txs[t].snap)},
                              !.snap = {},
                              !.pc = "recount"])
      /\ UNCHANGED <<manga, chapters, pages, nextChapterId, nextPageId, dirs,
                     files, faults, autoAdds, limits,
                     req, adds>>

\* UPDATE chapters SET page_count = (SELECT COUNT(*) ...) starts: its
\* snapshot is taken
TxRecountStart ==
    \E t \in TxIds :
      /\ txs[t].pc = "recount"
      /\ Step(t, [txs[t] EXCEPT !.snap = Visible(t), !.pc = "recountApply"])
      /\ UNCHANGED <<manga, chapters, pages, nextChapterId, nextPageId, dirs,
                     files, faults, autoAdds, limits,
                     req, adds>>

\* the UPDATE locks the chapter row and writes the count of its snapshot
TxRecountApply ==
    \E t \in TxIds :
      /\ txs[t].pc = "recountApply"
      /\ Free(t)
      /\ Step(t, [txs[t] EXCEPT !.cnt = Cardinality(txs[t].snap), !.snap = {},
                                !.pc = "commit"])
      /\ UNCHANGED <<manga, chapters, pages, nextChapterId, nextPageId, dirs,
                     files, faults, autoAdds, limits,
                     req, adds>>

\* tx.Commit
TxCommit ==
    \E t \in TxIds :
      /\ txs[t].pc = "commit"
      /\ pages' = Visible(t)
      /\ chapters' = {IF c.id = RepoChapter.id
                        THEN [c EXCEPT !.page_count = txs[t].cnt]
                        ELSE c : c \in chapters}
      /\ Finish(t, "ok", "")
      /\ UNCHANGED <<manga, nextChapterId, nextPageId, dirs, files, faults,
                     autoAdds, limits, req, adds>>

\* a statement of the transaction fails for an outside reason: the error is
\* returned, the deferred Rollback drops the writes
TxAbort ==
    \E t \in TxIds :
      /\ txs[t].op # "none"
      /\ Finish(t, "db", txs[t].pc)
      /\ UNCHANGED <<manga, chapters, pages, nextChapterId, nextPageId, dirs,
                     files, faults, autoAdds, limits,
                     req, adds>>

\* two transactions wait for each other: the database ends one of them with
\* a deadlock error
TxDeadlock ==
    \E t \in TxIds, u \in TxIds :
      /\ Blocked(t, u)
      /\ Blocked(u, t)
      /\ Finish(t, "deadlock", txs[t].pc)
      /\ UNCHANGED <<manga, chapters, pages, nextChapterId, nextPageId, dirs,
                     files, faults, autoAdds, limits,
                     req, adds>>

ConcNext ==
    \/ TxBegin \/ TxInsert \/ TxLookup \/ TxDelete \/ TxRenumberStart
    \/ TxRenumberApply \/ TxRecountStart \/ TxRecountApply \/ TxCommit
    \/ TxAbort \/ TxDeadlock

ConcSpec == RepoInit /\ [][ConcNext]_vars

\* ------------------------------------- add-page and page deletion alone
PageMaxPageId == 3

PageMaxFaults == 1

\* the stores after Create(manga 1, number 1.00)
PageInit ==
    /\ limits = [chapterIds |-> MaxChapterId, pageIds |-> PageMaxPageId,
                 faults |-> PageMaxFaults]
    /\ manga = MangaRows
    /\ chapters = {RepoChapter}
    /\ pages = {}
    /\ nextChapterId = 2
    /\ nextPageId = 1
    /\ dirs = {ChapterDir(RepoChapter.manga_id, RepoChapter.number)}
    /\ files = <<>>
    /\ faults = 0
    /\ last = NoCall
    /\ autoAdds = [c \in ChapterIds |-> 0]
    /\ txs = [t \in TxIds |-> IdleTx]
    /\ req = NoRequest
    /\ adds = [a \in AddIds |-> IdleAdd]

\* the deletion of a page row: what ChapterService.DeletePage does once its
\* loop has the row (repo.DeletePage, then the removal of the image file)
DeletePageFound ==
    \E targetPage \in pages, order \in RowOrders,
       f \in FaultSets(DeletePageFaults \ {"repo.GetPages"}) :
      LET r == SvcDeletePageFound(Stores, targetPage, targetPage.id, order, f)
      IN /\ Commit(r, f)
         /\ last' = Call("DeletePageFound", targetPage.id, 0, 0, "", r)
         /\ autoAdds' = IF r.out = "ok"
                          THEN [autoAdds EXCEPT ![targetPage.chapter_id] = 0 - 1]
                          ELSE autoAdds

PageNext == AddPage \/ DeletePageFound \/ Respond

PageSpec == PageInit /\ [][PageNext]_vars

\* ---------------------------------------------- concurrent add-page calls
\* AddPage calls of the service without page number, on the chapter
\* RepoChapter, each on its goroutine, interleaved step by step: repo.GetByID,
\* repo.GetPages, savePageImage, repo.AddPage (one transaction; two inserts
\* of one (chapter_id, number) are serialised by the unique index), os.Remove
\* when the insert failed.  No step fails for an outside reason.
AddMaxPageId == 2

AddInit ==
    /\ limits = [chapterIds |-> MaxChapterId, pageIds |-> AddMaxPageId,
                 faults |-> 0]
    /\ manga = MangaRows
    /\ chapters = {RepoChapter}
    /\ pages = {}
    /\ nextChapterId = 2
    /\ nextPageId = 1
    /\ dirs = {ChapterDir(RepoChapter.manga_id, RepoChapter.number)}
    /\ files = <<>>
    /\ faults = 0
    /\ last = NoCall
    /\ autoAdds = [c \in ChapterIds |-> 0 - 1]
    /\ txs = [t \in TxIds |-> IdleTx]
    /\ req = NoRequest
    /\ adds = [a \in AddIds |-> IdleAdd]

\* the call a goes on as next
Goes(a, next) == adds' = [adds EXCEPT ![a] = next]

\* the call a returns out
Returns(a, out, ret) ==
    adds' = [adds EXCEPT ![a] = [@ EXCEPT !.pc = "done", !.out = out, !.ret = ret]]

\* a request POST /chapters/1/pages without number arrives
AddStart ==
    \E a \in AddIds, d \in DataInputs :
      /\ adds[a].pc = "idle"
      /\ nextPageId <= limits.pageIds
      /\ Goes(a, [IdleAdd EXCEPT !.pc = "repo.GetByID", !.data = d])
      /\ UNCHANGED <<manga, chapters, pages, nextChapterId, nextPageId, dirs, files,
                     faults, last, autoAdds, txs, limits, req>>

\* chapter, err := s.repo.GetByID(ctx, page.ChapterID)
AddGetByID ==
    \E a \in AddIds :
      LET got == RepoGetByID(chapters, RepoChapter.id)
      IN /\ adds[a].pc = "repo.GetByID"
         /\ IF got.err # "" THEN Returns(a, "not_found", 0)
            ELSE Goes(a, [adds[a] EXCEPT !.pc = "repo.GetPages",
                                         !.chapter = got.chapter])
         /\ UNCHANGED <<manga, chapters, pages, nextChapterId, nextPageId, dirs,
                        files, faults, last, autoAdds, txs, limits, req>>

\* pages, err := s.repo.GetPages(...); page.Number = len(pages) + 1
AddGetPages ==
    \E a \in AddIds :
      /\ adds[a].pc = "repo.GetPages"
      /\ Goes(a, [adds[a] EXCEPT !.pc = "savePageImage",
                                 !.number = NextPageNumber(pages, adds[a].chapter.id)])
      /\ UNCHANGED <<manga, chapters, pages, nextChapterId, nextPageId, dirs, files,
                     faults, last, autoAdds, txs, limits, req>>

\* imagePath, err := s.savePageImage(...)
AddSavePageImage ==
    \E a \in AddIds :
      LET s == savePageImage(dirs, files, adds[a].chapter.manga_id,
                             adds[a].chapter.number, adds[a].number, adds[a].data,
                             FALSE, FALSE, FALSE)
      IN /\ adds[a].pc = "savePageImage"
         /\ dirs' = s.dirs
         /\ files' = s.files
         /\ Goes(a, [adds[a] EXCEPT !.pc = "repo.AddPage", !.path = s.path])
         /\ UNCHANGED <<manga, chapters, pages, nextChapterId, nextPageId, faults,
                        last, autoAdds, txs, limits, req>>

\* id, err := s.repo.AddPage(ctx, page)
AddInsert ==
    \E a \in AddIds :
      LET r == RepoAddPage(chapters, pages, nextPageId,
                           [chapter_id |-> adds[a].chapter.id,
                            number |-> adds[a].number,
                            image_url |-> adds[a].path], "")
      IN /\ adds[a].pc = "repo.AddPage"
         /\ chapters' = r.chapters
         /\ pages' = r.pages
         /\ nextPageId' = IF r.err = "" THEN nextPageId + 1 ELSE nextPageId
         /\ IF r.err = "" THEN Returns(a, "ok", r.id)
            ELSE Goes(a, [adds[a] EXCEPT !.pc = "os.Remove", !.out = r.err])
         /\ UNCHANGED <<manga, nextChapterId, dirs, files, faults, last, autoAdds,
                        txs, limits, req>>

\* _ = os.Remove(filepath.Join(s.imagesPath, imagePath)); return 0, err
AddRemove ==
    \E a \in AddIds :
      /\ adds[a].pc = "os.Remove"
      /\ files' = RemoveFile(files, adds[a].path)
      /\ Returns(a, adds[a].out, 0)
      /\ UNCHANGED <<manga, chapters, pages, nextChapterId, nextPageId, dirs,
                     faults, last, autoAdds, txs, limits, req>>

\* the response of a call is sent and its goroutine ends
AddReturn ==
    \E a \in AddIds :
      /\ adds[a].pc = "done"
      /\ Goes(a, IdleAdd)
      /\ UNCHANGED <<manga, chapters, pages, nextChapterId, nextPageId, dirs, files,
                     faults, last, autoAdds, txs, limits, req>>

AddNext ==
    \/ AddStart \/ AddGetByID \/ AddGetPages \/ AddSavePageImage \/ AddInsert
    \/ AddRemove \/ AddReturn

AddSpec == AddInit /\ [][AddNext]_vars

\* ------------------------------------------------- routing of a request
\* the roles a token can carry
Roles == {"user", "moderator", "admin"}

\* a token: whether its signature and expiry are good, and the role claim
Tokens == [valid : {TRUE}, role : Roles] \cup {[valid |-> FALSE, role |-> "admin"]}

\* AuthService.ValidateToken
ValidateToken(token) ==
    IF token.valid THEN [err |-> "", role |-> token.role]
    ELSE [err |-> "invalid", role |-> ""]

\* the Authorization headers sent: none, another scheme, Bearer <token>
AuthHeaders ==
    {<<>>, <<"Basic", [valid |-> TRUE, role |-> "admin"]>>}
      \cup {<<"Bearer", t>> : t \in Tokens}

ContentTypes == {"application/json", "multipart/form-data", "text/plain"}

H(fn, arg) == [fn |-> fn, arg |-> arg]

\* ChapterHandler.Register: the handlers of each chapter route
ChapterRoutes ==
    {[method |-> "GET", path |-> "/api/chapters/manga/:manga_id",
      chain |-> <<H("handler", "getChaptersByManga")>>],
     [method |-> "GET", path |-> "/api/chapters/:id",
      chain |-> <<H("handler", "getChapterByID")>>],
     [method |-> "POST", path |-> "/api/chapters",
      chain |-> <<H("authMiddleware", "moderator"), H("handler", "createChapter")>>],
     [method |-> "PUT", path |-> "/api/chapters/:id",
      chain |-> <<H("authMiddleware", "moderator"), H("handler", "updateChapter")>>],
     [method |-> "DELETE", path |-> "/api/chapters/:id",
      chain |-> <<H("authMiddleware", "moderator"), H("handler", "deleteChapter")>>],
     [method |-> "GET", path |-> "/api/chapters/:id/pages",
      chain |-> <<H("handler", "getChapterPages")>>],
     [method |-> "POST", path |-> "/api/chapters/:id/pages",
      chain |-> <<H("authMiddleware", "moderator"), H("handler", "addChapterPage")>>],
     [method |-> "DELETE", path |-> "/api/chapters/pages/:page_id",
      chain |-> <<H("authMiddleware", "moderator"),
                  H("handler", "deleteChapterPage")>>]}

\* UserHandler.Register: a route of the authenticated group and a route of
\* the admin group
UserRoutes ==
    {[method |-> "GET", path |-> "/api/users/profile",
      chain |-> <<H("JWTAuth", ""), H("handler", "getUserProfile")>>],
     [method |-> "DELETE", path |-> "/api/users/:id",
      chain |-> <<H("JWTAuth", ""), H("RoleAuth", "admin"),
                  H("handler", "deleteUser")>>]}

\* Handler.Register: the routes of the /api group
Routes == ChapterRoutes \cup UserRoutes

\* the middleware of the engine, in the order of its registration:
\* router.Use(gin.Recovery()) in the app, then Handler.Register
GlobalChain ==
    <<H("gin.Recovery", ""), H("Logger", ""), H("Recover", ""), H("CORS", ""),
      H("ContentTypeJSON", "")>>

\* the handlers gin runs for a request: the engine's middleware, then the
\* handlers of the route that matches (the 404 handler when none does)
RouteChain(method, path) ==
    LET found == {r \in Routes : r.method = method /\ r.path = path}
    IN IF found = {} THEN GlobalChain \o <<H("notFound", "")>>
       ELSE GlobalChain \o (CHOOSE r \in found : TRUE).chain

\* the requests sent: every route, and two requests no route matches
Requests ==
    {[method |-> r.method, path |-> r.path] : r \in Routes}
      \cup {[method |-> "OPTIONS", path |-> "/api/chapters"],
            [method |-> "PATCH", path |-> "/api/chapters/:id"]}

\* c.Get(key): the values set for the key (none or one)
CtxGet(ctx, key) == {kv[2] : kv \in {x \in ctx : x[1] = key}}

\* c.Set(key, value)
CtxSet(ctx, key, value) == {x \in ctx : x[1] # key} \cup {<<key, value>>}

\* c.JSON(code, ...) / c.AbortWithStatus(code), c.Abort(), return
AbortWith(r, code) == [r EXCEPT !.status = code]

\* c.Next()
NextHandler(r) == [r EXCEPT !.pos = @ + 1]

\* Middleware.CORS
CORS(r) == IF r.method = "OPTIONS" THEN AbortWith(r, 204) ELSE NextHandler(r)

\* Middleware.ContentTypeJSON
ContentTypeJSON(r) ==
    IF /\ r.method \in {"POST", "PUT", "PATCH"}
       /\ r.ctype \notin {"application/json", "multipart/form-data"}
      THEN AbortWith(r, 415)
      ELSE NextHandler(r)

\* Middleware.JWTAuth (user_id and username, which it also sets, are left out)
JWTAuth(r) ==
    IF r.auth = <<>> THEN AbortWith(r, 401)
    ELSE IF Len(r.auth) # 2 \/ r.auth[1] # "Bearer" THEN AbortWith(r, 401)
    ELSE LET claims == ValidateToken(r.auth[2])
         IN IF claims.err # "" THEN AbortWith(r, 401)
            ELSE NextHandler([r EXCEPT !.ctx = CtxSet(@, "user_role", claims.role)])

\* hasRole of the middleware package
hasRole(userRole, requiredRole) ==
    \/ userRole = "admin"
    \/ userRole = "moderator" /\ requiredRole \in {"moderator", "user"}
    \/ userRole = "user" /\ requiredRole = "user"

\* Middleware.RoleAuth(requiredRole)
RoleAuth(r, requiredRole) ==
    IF CtxGet(r.ctx, "user_role") = {} THEN AbortWith(r, 401)
    ELSE IF ~ hasRole(CHOOSE v \in CtxGet(r.ctx, "user_role") : TRUE, requiredRole)
      THEN AbortWith(r, 403)
    ELSE NextHandler(r)

\* hasRequiredRole of the chapter handler
hasRequiredRole(userRole, requiredRole) ==
    \/ userRole = "admin"
    \/ userRole = "moderator" /\ requiredRole \in {"moderator", "user"}
    \/ userRole = "user" /\ requiredRole = "user"

\* ChapterHandler.authMiddleware(requiredRole)
authMiddleware(r, requiredRole) ==
    IF CtxGet(r.ctx, "user_role") = {} THEN AbortWith(r, 401)
    ELSE IF ~ hasRequiredRole(CHOOSE v \in CtxGet(r.ctx, "user_role") : TRUE,
                              requiredRole)
      THEN AbortWith(r, 403)
    ELSE NextHandler(r)

\* the handler of the chain the request is at
Current == RouteChain(req.method, req.path)[req.pos]

\* the request is at a handler with this name
At(fn) == req.pos > 0 /\ req.status = 0 /\ Current.fn = fn

Routed(r) ==
    /\ req' = r
    /\ UNCHANGED <<manga, chapters, pages, nextChapterId, nextPageId, dirs, files,
                   faults, last, autoAdds, txs, limits, adds>>

\* a request arrives and gin starts its chain
Receive ==
    /\ req = NoRequest
    /\ \E q \in Requests, auth \in AuthHeaders, ctype \in ContentTypes :
         Routed([NoRequest EXCEPT !.method = q.method, !.path = q.path,
                                  !.auth = auth, !.ctype = ctype, !.pos = 1])

\* gin.Recovery, Middleware.Logger, Middleware.Recover: c.Next() (no handler
\* of the chain panics)
RunPassing ==
    /\ At("gin.Recovery") \/ At("Logger") \/ At("Recover")
    /\ Routed(NextHandler(req))

RunCORS == At("CORS") /\ Routed(CORS(req))

RunContentTypeJSON == At("ContentTypeJSON") /\ Routed(ContentTypeJSON(req))

RunJWTAuth == At("JWTAuth") /\ Routed(JWTAuth(req))

RunRoleAuth == At("RoleAuth") /\ Routed(RoleAuth(req, Current.arg))

RunAuthMiddleware == At("authMiddleware") /\ Routed(authMiddleware(req, Current.arg))

\* the route handler is entered: it decodes the request and calls the service
RunHandler ==
    /\ At("handler")
    /\ Routed([req EXCEPT !.handler = Current.arg, !.status = 200])

\* no route matches: gin answers 404
RunNotFound == At("notFound") /\ Routed(AbortWith(req, 404))

\* the response is sent
Reply == req.status # 0 /\ Routed(NoRequest)

AuthNext ==
    \/ Receive \/ RunPassing \/ RunCORS \/ RunContentTypeJSON \/ RunJWTAuth
    \/ RunRoleAuth \/ RunAuthMiddleware \/ RunHandler \/ RunNotFound \/ Reply

AuthSpec == Init /\ [][AuthNext]_vars

\* ------------------------------------------------------------------ claims
\* the page numbers of a chapter's page rows
PageNumbers(pgs, chapterID) == {p.number : p \in {q \in pgs : q.chapter_id = chapterID}}

\* the chapter row with an id (NoChapter when there is none)
ChapterRow(chs, id) == RepoGetByID(chs, id).chapter

\* the calls a service call made
CallsMade(call) == {call.calls[i] : i \in 1..Len(call.calls)}

\* C1: after a completed add-page or delete-page operation the page numbers
\* of the chapter it worked on are exactly 1..page_count.
C1_DensePageNumbers ==
    [][(last'.op \in {"AddPage", "DeletePage"} /\ last'.out = "ok")
         => \A c \in chapters' :
              (\/ last'.op = "AddPage" /\ c.id = last'.id
               \/ last'.op = "DeletePage"
                    /\ \E p \in pages : p.id = last'.id /\ p.chapter_id = c.id)
                => PageNumbers(pages', c.id) = 1..c.page_count]_vars

\* C2: every chapter row's page_count is the number of page rows of the
\* chapter.
C2_PageCountIsRowCount ==
    \A c \in chapters : c.page_count = CountPages(pages, c.id)

\* C3: a successful add-page without page number inserts one row, numbered
\* (number of page rows of the chapter) + 1; and a chapter that since its
\* creation only received k >= 1 such pages holds pages 1..k, page_count k.
C3_AutoNumber ==
    /\ [][(last'.op = "AddPage" /\ last'.out = "ok" /\ last'.number <= 0)
            => /\ Cardinality(pages' \ pages) = 1
               /\ pages \subseteq pages'
               /\ \A p \in pages' \ pages :
                    /\ p.chapter_id = last'.id
                    /\ p.number = CountPages(pages, last'.id) + 1
                    /\ p.number = last'.page_number]_vars
    /\ [](\A c \in ChapterIds :
            autoAdds[c] >= 1
              => /\ PageNumbers(pages, c) = 1..autoAdds[c]
                 /\ CountPages(pages, c) = autoAdds[c]
                 /\ ChapterRow(chapters, c).page_count = autoAdds[c])

C3_Witness ==
    /\ last.op = "AddPage" /\ last.out = "ok" /\ last.number <= 0
    /\ autoAdds[last.id] = 2
    /\ PageNumbers(pages, last.id) = {1, 2}

\* C4: delete-page of an existing page of a chapter holding pages 1..N, with
\* no outside failure, succeeds, removes the row and leaves pages 1..N-1 with
\* page_count N-1.
C4_DeletePageSucceeds ==
    [][(last'.op = "DeletePage" /\ last'.hit = {})
         => \A p \in pages :
              (/\ p.id = last'.id
               /\ PageNumbers(pages, p.chapter_id)
                    = 1..CountPages(pages, p.chapter_id))
                => /\ last'.out = "ok"
                   /\ ~ \E q \in pages' : q.id = p.id
                   /\ PageNumbers(pages', p.chapter_id)
                        = 1..(CountPages(pages, p.chapter_id) - 1)
                   /\ ChapterRow(chapters', p.chapter_id).page_count
                        = CountPages(pages, p.chapter_id) - 1]_vars

DuplicateCreate(call, chs, mangas) ==
    /\ call.op = "Create"
    /\ call.manga_id \in mangas /\ call.number > 0 /\ call.title # ""
    /\ \E c \in chs : c.manga_id = call.manga_id /\ c.number = PgRound2(call.number)

\* C6 as stated: create with a (series, number) that already has a row fails
\* with a conflict error (no outside failure), creates no directory and adds
\* no chapter row.
C6_DuplicateCreate ==
    [][(DuplicateCreate(last', chapters, manga) /\ last'.hit = {})
         => /\ last'.out = "conflict"
            /\ dirs' = dirs
            /\ chapters' = chapters]_vars

\* C6 amended: such a create fails (with a conflict error when nothing fails
\* for an outside reason) and adds no chapter row; it creates no directory
\* when the directory of the pair is there, and otherwise leaves at most that
\* one directory behind; it touches no file.
C6_DuplicateCreateAmended ==
    [][DuplicateCreate(last', chapters, manga)
         => /\ last'.out # "ok"
            /\ last'.hit = {} => last'.out = "conflict"
            /\ chapters' = chapters
            /\ nextChapterId' = nextChapterId
            /\ files' = files
            /\ dirs \subseteq dirs'
            /\ dirs' \subseteq dirs \cup {ChapterDir(last'.manga_id, last'.number)}
            /\ ChapterDir(last'.manga_id, last'.number) \in dirs => dirs' = dirs]_vars

C6_Witness ==
    /\ DuplicateCreate(last, chapters, manga)
    /\ last.out = "conflict"
    /\ Cardinality(chapters) = 1
    /\ ChapterDir(last.manga_id, last.number) \in dirs

\* C7: when the image write of add-page fails, no page row is created and
\* page_count does not change (the insert is not attempted).
C7_ImageWriteFailure ==
    [][(/\ last'.op = "AddPage"
        /\ last'.hit \cap {"os.MkdirAll", "os.WriteFile.open",
                           "os.WriteFile.write"} # {})
         => /\ last'.out = "storage"
            /\ last'.step = "savePageImage"
            /\ pages' = pages
            /\ chapters' = chapters
            /\ nextPageId' = nextPageId
            /\ "repo.AddPage" \notin CallsMade(last')]_vars

C7_Witness ==
    /\ last.op = "AddPage" /\ last.out = "storage"
    /\ "os.WriteFile.write" \in last.hit
    /\ \E c \in chapters : c.id = last.id /\ c.page_count = CountPages(pages, c.id)

\* C8: when the row insert of add-page fails after the image was written, an
\* error is returned, the rows are as before, and the file at the written
\* path is gone unless its removal failed.
C8_InsertFailureCompensation ==
    [][(last'.op = "AddPage" /\ last'.step = "repo.AddPage")
         => /\ last'.out \in {"db", "conflict", "foreign_key"}
            /\ pages' = pages
            /\ chapters' = chapters
            /\ last'.path = PagePath(ChapterRow(chapters, last'.id).manga_id,
                                     ChapterRow(chapters, last'.id).number,
                                     last'.page_number)
            /\ last'.warn # "os.Remove" => last'.path \notin DOMAIN files']_vars

C8_Witness ==
    /\ last.op = "AddPage" /\ last.step = "repo.AddPage" /\ last.out = "db"
    /\ last.warn = ""
    /\ last.path \notin DOMAIN files
    /\ DirOf(last.path) \in dirs

\* C9: a failed create-chapter leaves the chapter rows as they were, and
\* when the directory step fails the insert is not attempted.
C9_FailedCreate ==
    [][(last'.op = "Create" /\ last'.out # "ok")
         => /\ chapters' = chapters
            /\ nextChapterId' = nextChapterId
            /\ pages' = pages
            /\ "createChapterImageDir" \in last'.hit
                 => "repo.Create" \notin CallsMade(last')]_vars

C9_Witness ==
    /\ last.op = "Create" /\ last.out = "storage"
    /\ "createChapterImageDir" \in last.hit
    /\ ChapterDir(last.manga_id, last.number) \notin dirs

\* C10: create with a non-positive number, an empty title or a series
\* without row is rejected before any side effect: no directory, no row.
C10_CreateRejected ==
    [][(/\ last'.op = "Create"
        /\ \/ last'.number <= 0
           \/ last'.title = ""
           \/ last'.manga_id \notin manga)
         => /\ last'.out \in {"validation", "not_found", "db"}
            /\ last'.ret = 0
            /\ dirs' = dirs
            /\ files' = files
            /\ chapters' = chapters
            /\ pages' = pages
            /\ CallsMade(last') \subseteq {"mangaRepo.GetByID"}]_vars

C10_Witness ==
    /\ last.op = "Create" /\ last.out = "not_found"
    /\ last.manga_id # 0 /\ last.manga_id \notin manga
    /\ last.number > 0 /\ last.title # ""
    /\ dirs = {} /\ chapters = {}

\* C11: update with a non-positive chapter number or an empty title is
\* rejected before any side effect: no directory renamed or created, the
\* chapter row unchanged.
C11_UpdateRejected ==
    [][(/\ last'.op = "Update"
        /\ \/ last'.number <= 0
           \/ last'.title = "")
         => /\ last'.out # "ok"
            /\ dirs' = dirs
            /\ files' = files
            /\ chapters' = chapters]_vars

\* C12: after a failed update the chapter rows are as before (the row keeps
\* its old number); when the directory step is what failed, the row update
\* was not attempted and the directories and files are where they were.
C12_FailedUpdate ==
    [][(last'.op = "Update" /\ last'.out # "ok")
         => /\ chapters' = chapters
            /\ last'.step = "updateChapterImageDir"
                 => /\ "repo.Update" \notin CallsMade(last')
                    /\ dirs' = dirs
                    /\ files' = files]_vars

C12_Witness ==
    /\ last.op = "Update" /\ last.out = "storage"
    /\ last.step = "updateChapterImageDir"
    /\ \E c \in chapters :
         /\ c.id = last.id
         /\ c.number # last.number
         /\ ChapterDir(c.manga_id, c.number) \in dirs
         /\ ChapterDir(c.manga_id, last.number) \notin dirs

\* C13: in delete chapter and delete page, once the row deletion is done the
\* call returns success whatever the removal of the directory or file does;
\* the failed removal is only logged.
C13_DeleteSucceedsAfterCommit ==
    [][(\/ /\ last'.op = "Delete"
           /\ \E c \in chapters : c.id = last'.id
           /\ ~ \E c \in chapters' : c.id = last'.id
        \/ /\ last'.op = "DeletePage"
           /\ \E q \in pages : q.id = last'.id
           /\ ~ \E q \in pages' : q.id = last'.id)
         => /\ last'.out = "ok"
            /\ (last'.hit \cap {"os.RemoveAll", "os.Remove"} # {})
                 => /\ last'.warn \in {"deleteChapterImageDir", "deletePageImage"}
                    /\ dirs' = dirs
                    /\ files' = files]_vars

C13_Witness ==
    /\ last.op = "Delete" /\ last.out = "ok"
    /\ last.warn = "deleteChapterImageDir"
    /\ ~ \E c \in chapters : c.id = last.id
    /\ files # <<>>

\* C14: after a successful deletion of a series no chapter row, no page row,
\* no chapter directory and no page file of the series remains.
C14_SeriesDeleteCascades ==
    [][(last'.op = "DeleteManga" /\ last'.out = "ok")
         => /\ ~ \E c \in chapters' : c.manga_id = last'.id
            /\ \A q \in pages' : \E c \in chapters' : c.id = q.chapter_id
            /\ ~ \E d \in dirs' : d[2] = last'.id
            /\ ~ \E f \in DOMAIN files' : f[2] = last'.id]_vars

\* C15: every page row's stored image path is the path derived from the
\* series id, the current number of its chapter and its own number.
C15_ImagePathDerivable ==
    \A q \in pages :
      \E c \in chapters :
        /\ c.id = q.chapter_id
        /\ q.image_url = PagePath(c.manga_id, c.number, q.number)

\* C16: delete page (no outside failure) of a page of a chapter whose pages
\* are 1..N with their files in place leaves every later page one number
\* lower, with its image at the path derived from the new number.
C16_ShiftedFilesRenamed ==
    [][(last'.op = "DeletePage" /\ last'.hit = {})
         => \A d \in pages :
              (/\ d.id = last'.id
               /\ PageNumbers(pages, d.chapter_id)
                    = 1..CountPages(pages, d.chapter_id))
                => LET c == ChapterRow(chapters, d.chapter_id)
                   IN \A q \in pages :
                        (/\ q.chapter_id = d.chapter_id
                         /\ q.number > d.number
                         /\ PagePath(c.manga_id, c.number, q.number) \in DOMAIN files)
                          => /\ \E n \in pages' : n.id = q.id /\ n.number = q.number - 1
                             /\ PagePath(c.manga_id, c.number, q.number - 1)
                                  \in DOMAIN files'
                             /\ files'[PagePath(c.manga_id, c.number, q.number - 1)]
                                  = files[PagePath(c.manga_id, c.number, q.number)]]_vars

\* C17: a call of the repository's DeletePage that returns an error,
\* whichever step failed, leaves the page rows and the chapter rows (the
\* page_count) exactly as they were.
C17_DeletePageAtomic ==
    [][(last'.op = "repo.DeletePage" /\ last'.out # "ok")
         => /\ pages' = pages
            /\ chapters' = chapters]_vars

C17_Witness ==
    /\ last.op = "repo.DeletePage" /\ last.out = "db"
    /\ last.step = "recount"
    /\ \E q \in pages : q.id = last.id /\ q.number = 1
    /\ Cardinality(pages) = 2
    /\ ChapterRow(chapters, RepoChapter.id).page_count = 2

\* C18: a call of the repository's AddPage either adds the one page row and
\* writes the page_count that counts it, or, on any error, changes neither
\* the page rows nor the page_count.
C18_AddPageAtomic ==
    [][last'.op = "repo.AddPage"
         => \/ /\ last'.out = "ok"
               /\ pages \subseteq pages'
               /\ \E q \in pages' \ pages :
                    /\ pages' = pages \cup {q}
                    /\ q.id = last'.ret
                    /\ q.chapter_id = last'.id
                    /\ q.number = last'.number
               /\ ChapterRow(chapters', last'.id).page_count
                    = CountPages(pages', last'.id)
               /\ ChapterRow(chapters', last'.id).page_count
                    # ChapterRow(chapters, last'.id).page_count
            \/ /\ last'.out # "ok"
               /\ pages' = pages
               /\ chapters' = chapters]_vars

C18_Witness ==
    /\ last.op = "repo.AddPage" /\ last.out = "db"
    /\ last.step = "recount"
    /\ ~ \E q \in pages : q.chapter_id = last.id /\ q.number = last.number
    /\ \E c \in chapters : c.id = last.id /\ c.page_count = CountPages(pages, c.id)

\* C19: whenever no page transaction is open, the page numbers of the
\* chapter's rows are distinct and the chapter's page_count is the number of
\* its page rows.
C19_ConcurrentRowsConsistent ==
    (\A t \in TxIds : txs[t].op = "none")
      => /\ \A q, r \in pages :
              (q.chapter_id = r.chapter_id /\ q.number = r.number) => q = r
         /\ \A c \in chapters : c.page_count = CountPages(pages, c.id)

\* the chapter row b is not the chapter the call works on
OtherChapter(call, b, pgs) ==
    \/ /\ call.op = "Create"
       /\ ~ (b.manga_id = call.manga_id /\ b.number = PgRound2(call.number))
    \/ /\ call.op \in {"Update", "Delete", "AddPage"}
       /\ b.id # call.id
    \/ /\ call.op = "DeletePage"
       /\ ~ \E q \in pgs : q.id = call.id /\ q.chapter_id = b.id

C21_PathLayout ==
    /\ \A d \in dirs :
         /\ Len(d) = 4
         /\ d[1] = "series_" /\ d[3] = "/chapter_"
    /\ \A f \in DOMAIN files \cup {q.image_url : q \in pages} :
         /\ Len(f) = 7
         /\ f[1] = "series_" /\ f[3] = "/chapter_"
         /\ f[5] = "/page_" /\ Len(f[6]) = 3

\* C22: create_chapter_directory is idempotent: applied to a (series, number)
\* whose directory already exists it returns no error and leaves the
\* directories and the files as they are, so that two calls in a row leave
\* what one call leaves.
C22_CreateDirIdempotent ==
    /\ [][(/\ last'.op = "Create"
           /\ "createChapterImageDir" \in CallsMade(last')
           /\ "createChapterImageDir" \notin last'.hit)
            => LET dir == ChapterDir(last'.manga_id, last'.number)
               IN /\ last'.step # "createChapterImageDir"
                  /\ dirs' = dirs \cup {dir}
                  /\ files' = files
                  /\ dir \in dirs => dirs' = dirs]_vars
    /\ [](\A m \in MangaRows, n \in NumberInputs :
            createChapterImageDir(createChapterImageDir(dirs, m, n), m, n)
              = createChapterImageDir(dirs, m, n))

C22_Witness ==
    /\ last.op = "Create" /\ last.out = "conflict"
    /\ "createChapterImageDir" \in CallsMade(last)
    /\ last.hit = {}
    /\ dirs = {ChapterDir(last.manga_id, last.number)}
    /\ \E c \in chapters :
         ChapterDir(c.manga_id, c.number) = ChapterDir(last.manga_id, last.number)

\* the directory step of an Update call: it was reached and no I/O failure
\* was injected into it
RenameStepRan(call) ==
    /\ call.op = "Update"
    /\ "updateChapterImageDir" \in CallsMade(call)
    /\ call.hit \cap {"os.Rename", "os.MkdirAll"} = {}

\* the directory old and the files below it are at new afterwards
MovedTo(ds, fs, ds2, fs2, old, new) ==
    /\ new \in ds2
    /\ old # new => old \notin ds2 /\ FilesUnder(fs2, old) = {}
    /\ \A p \in FilesUnder(fs, old) :
         LET q == new \o SubSeq(p, 5, Len(p))
         IN q \in DOMAIN fs2 /\ fs2[q] = fs[p]

C24_RenumberKeepsOrder ==
    [][(last'.op = "repo.DeletePage" /\ last'.out # "db")
         => \A d \in pages :
              (/\ d.id = last'.id
               /\ PageNumbers(pages, d.chapter_id)
                    = 1..CountPages(pages, d.chapter_id))
                => /\ last'.out = "ok"
                   /\ last'.step # "renumber"
                   /\ \A q \in pages :
                        (q.chapter_id = d.chapter_id /\ q.id # d.id)
                          => \E n \in pages' :
                               /\ n.id = q.id
                               /\ n.number = IF q.number < d.number
                                               THEN q.number
                                               ELSE q.number - 1]_vars

\* C25: an update chapter whose directory step succeeded and whose row
\* update then failed returns the error with the chapter row as it was, at
\* the old number, and the directory (with its files) at the new number's
\* path: nothing moves it back.
C25_RenameNotUndone ==
    [][(/\ last'.op = "Update"
        /\ "updateChapterImageDir" \in CallsMade(last')
        /\ last'.step = "repo.Update")
         => LET c == ChapterRow(chapters, last'.id)
                old == ChapterDir(c.manga_id, c.number)
                new == ChapterDir(c.manga_id, last'.number)
            IN /\ last'.out # "ok"
               /\ chapters' = chapters
               /\ ChapterRow(chapters', last'.id).number = c.number
               /\ old \in dirs => MovedTo(dirs, files, dirs', files', old, new)
               /\ old \notin dirs => new \in dirs']_vars

C25_Witness ==
    /\ last.op = "Update" /\ last.step = "repo.Update" /\ last.out = "db"
    /\ "updateChapterImageDir" \in CallsMade(last)
    /\ \E c \in chapters :
         /\ c.id = last.id
         /\ c.number = 1000 /\ last.number = 2000
         /\ ChapterDir(c.manga_id, c.number) \notin dirs
         /\ FilesUnder(files, ChapterDir(c.manga_id, c.number)) = {}
         /\ ChapterDir(c.manga_id, last.number) \in dirs
         /\ FilesUnder(files, ChapterDir(c.manga_id, last.number)) # {}
         /\ \E q \in pages : q.chapter_id = c.id

\* the mutating chapter and page routes
MutatingChapterRoute(r) ==
    /\ r.method \in {"POST", "PUT", "DELETE"}
    /\ \E c \in ChapterRoutes : c.method = r.method /\ c.path = r.path

\* the request carries a valid token of a moderator or an admin
ModeratorToken(r) ==
    /\ Len(r.auth) = 2 /\ r.auth[1] = "Bearer"
    /\ r.auth[2].valid /\ r.auth[2].role \in {"moderator", "admin"}

\* C26: on every mutating chapter/page route the role check runs after the
\* JWT authentication that puts the role in the context: a request with a
\* valid moderator or admin token enters the route handler (which calls the
\* service), every other request is answered before it.
C26_MutatingRoutesAuthorized ==
    (/\ req.status # 0
     /\ MutatingChapterRoute(req)
     /\ req.ctype \in {"application/json", "multipart/form-data"})
      => (req.handler # "" <=> ModeratorToken(req))

\* C27: an add-page that fails, the requested or computed number being taken
\* included, leaves the image file of every existing page row as it was:
\* neither the write nor the compensating delete alters it.
C27_FailedAddKeepsFiles ==
    [][(last'.op = "AddPage" /\ last'.out # "ok")
         => /\ pages' = pages
            /\ \A q \in pages :
                 q.image_url \in DOMAIN files
                   => /\ q.image_url \in DOMAIN files'
                      /\ files'[q.image_url] = files[q.image_url]]_vars

\* C28: after any sequence of add-page operations and page deletions (the
\* repository's delete_page followed by the removal of the image file) no
\* two page rows refer to the same image file, and a successful add-page
\* without number does not write over the file of a page row that is there.
C28_OneFilePerPage ==
    /\ [](\A q, r \in pages : q.image_url = r.image_url => q = r)
    /\ [][(/\ last'.op = "AddPage" /\ last'.out = "ok" /\ last'.number <= 0)
            => \A q \in pages : q.image_url # last'.path]_vars

\* every page row's stored image path names a file that exists
ImagesOnDisk(pgs, fs) == \A q \in pgs : q.image_url \in DOMAIN fs

\* C29: with no failed file system call, every page row's stored image path
\* names an existing file after any sequence of completed create, update,
\* add-page, delete-page and delete-chapter operations: it does so at the
\* start, and every operation that succeeds without a failure keeps it so.
C29_ImagesExist ==
    /\ ImagesOnDisk(pages, files)
    /\ [][(/\ last'.op \in {"Create", "Update", "AddPage", "DeletePage", "Delete"}
           /\ last'.out = "ok" /\ last'.hit = {} /\ last'.warn = ""
           /\ ImagesOnDisk(pages, files))
            => ImagesOnDisk(pages', files')]_vars

\* the call a has returned success
Succeeded(a) == adds[a].pc = "done" /\ adds[a].out = "ok"

\* C30: of add-page calls without number that run concurrently on one
\* chapter, every call that returns success has its page row in the table
\* and its image file on disk, holding the bytes it uploaded; the
\* compensation of a call that lost never deletes the file of a call that
\* won.
C30_ConcurrentAddsKeepFiles ==
    /\ [](\A a \in AddIds :
            Succeeded(a)
              => /\ \E q \in pages : /\ q.id = adds[a].ret
                                     /\ q.number = adds[a].number
                                     /\ q.image_url = adds[a].path
                 /\ adds[a].path \in DOMAIN files
                 /\ files[adds[a].path] = adds[a].data)
    /\ [][\A a, b \in AddIds :
            (/\ adds[a].pc = "os.Remove" /\ adds'[a].pc = "done"
             /\ Succeeded(b))
              => adds[b].path \in DOMAIN files']_vars

====
